---- MODULE Spec2Model ----
(***************************************************************************)
(* Model of the interleaved vertex/index stream builder of j4k.co/gfx:     *)
(* the VertexFormat schema (geometry.go) and geometry.VertexBuilder,       *)
(* geometry.IndexBuilder and geometry.Builder (geometry/builder.go).       *)
(*                                                                         *)
(* A VertexFormat is a uint32 bit set; it is kept as a natural number and  *)
(* the single-bit tests and sets of the source (v&i != 0, curvf |= v) are  *)
(* HasBit and OrBit.  A float32 is kept as its IEEE-754 bit pattern, a     *)
(* byte as a number in 0..255, a uint16 as a number in 0..65535.           *)
(***************************************************************************)
EXTENDS Integers, Sequences, FiniteSets, TLC

VARIABLES
    vb,       \* the VertexBuilder (builder.go:29-37)
    ib,       \* the IndexBuilder (builder.go:175-178)
    err,      \* how the last call ended: "nil", an error value or a panic
    op,       \* the last call made on the builder
    arg,      \* the arguments of the last call
    dest,     \* the destination buffer of the last copy-out, as the call left it
    started,  \* number of Position calls since construction or the last Clear
    explicit, \* per record, the channels a setter wrote on it
    fin,      \* CopyVertices calls since the last Position, setter or Clear (up to 2)
    supplied, \* whether Indices or SetIndices was ever called
    replaced, \* whether SetIndices was called since construction or the last Clear
    twin,     \* a freshly constructed Builder replaying the calls made since the last Clear
    ret,      \* the values the schema queries returned
    rewrote,  \* whether the last call was a setter writing a channel again on the same
              \* record: "yes" or "no", recorded in the runs of SpecSetter only
    trashbin, \* the trash bin of buffers to delete (garbage.go:8-17)
    pc,       \* per goroutine, the call it is in, where it stands and the handle it has
    handles,  \* the handles whose append is done, and those passed to gl.DeleteBuffers
    nodes     \* the scene nodes (scenes/object.go:22-27)

builderVars == <<vb, ib, err, op, arg, dest, started, explicit, fin, supplied, replaced, twin,
                 ret, rewrote>>

vars == <<vb, ib, err, op, arg, dest, started, explicit, fin, supplied, replaced, twin, ret,
         rewrote, trashbin, pc, handles, nodes>>

---------------------------------------------------------------------------
(* Vertex schema: geometry.go:582-711                                      *)

VertexPosition  == 1
VertexColor     == 2
VertexColor1    == 4
VertexNormal    == 8
VertexTangent   == 16
VertexBitangent == 32
VertexTexcoord  == 64
VertexTexcoord1 == 128
VertexTexcoord2 == 256
VertexTexcoord3 == 512
VertexTexcoord4 == 1024
VertexTexcoord5 == 2048
VertexTexcoord6 == 4096
VertexTexcoord7 == 8192
VertexUserData  == 16384
VertexUserData1 == 32768
VertexUserData2 == 65536
VertexUserData3 == 131072
MaxVertexFormat == VertexUserData3

\* v&i != 0 for a single-bit i
HasBit(v, i) == (v \div i) % 2 = 1

\* v |= i for a single-bit i
OrBit(v, i) == IF HasBit(v, i) THEN v ELSE v + i

fsize == 4

\* attribBytes without the case of the texcoord channels, which then take the
\* default of three floats
attribBytes_noTexcoord(v) ==
    CASE v \in {VertexColor, VertexColor1} -> 4
      [] v \in {VertexUserData, VertexUserData1, VertexUserData2, VertexUserData3}
            -> 4 * fsize
      [] OTHER -> 3 * fsize

\* attribBytes gives the byte size of a specific piece of vertex data
attribBytes(v) ==
    CASE v \in {VertexColor, VertexColor1} -> 4
      [] v \in {VertexTexcoord, VertexTexcoord1, VertexTexcoord2, VertexTexcoord3,
                VertexTexcoord4, VertexTexcoord5, VertexTexcoord6, VertexTexcoord7}
            -> 2 * fsize
      [] v \in {VertexUserData, VertexUserData1, VertexUserData2, VertexUserData3}
            -> 4 * fsize
      [] OTHER -> 3 * fsize

\* attribType gives the GL type of a specific piece of vertex data
attribType(v) == IF v \in {VertexColor, VertexColor1} THEN "UNSIGNED_BYTE" ELSE "FLOAT"

\* attribNormalized
attribNormalized(v) == v \in {VertexColor, VertexColor1}

\* attribElems without the case of the user-data channels, which then take
\* the default of three elements
attribElems_noUserData(v) ==
    CASE v \in {VertexColor, VertexColor1} -> 4
      [] v \in {VertexTexcoord, VertexTexcoord1, VertexTexcoord2, VertexTexcoord3,
                VertexTexcoord4, VertexTexcoord5, VertexTexcoord6, VertexTexcoord7}
            -> 2
      [] OTHER -> 3

\* attribElems gives the number of elements for a specific piece of vertex data
attribElems(v) ==
    CASE v \in {VertexColor, VertexColor1} -> 4
      [] v \in {VertexTexcoord, VertexTexcoord1, VertexTexcoord2, VertexTexcoord3,
                VertexTexcoord4, VertexTexcoord5, VertexTexcoord6, VertexTexcoord7}
            -> 2
      [] v \in {VertexUserData, VertexUserData1, VertexUserData2, VertexUserData3}
            -> 4
      [] OTHER -> 3

\* the loop of Stride: for i = 1; i <= MaxVertexFormat; i <<= 1
RECURSIVE StrideLoop(_, _, _)
StrideLoop(v, i, stride) ==
    IF i > MaxVertexFormat THEN stride
    ELSE StrideLoop(v, 2 * i, IF HasBit(v, i) THEN stride + attribBytes(i) ELSE stride)

Stride(v) == StrideLoop(v, 1, 0)

\* the loop of Count
RECURSIVE CountLoop(_, _, _)
CountLoop(v, i, count) ==
    IF i > MaxVertexFormat THEN count
    ELSE CountLoop(v, 2 * i, IF HasBit(v, i) THEN count + 1 ELSE count)

Count(v) == CountLoop(v, 1, 0)

---------------------------------------------------------------------------
(* Values                                                                  *)

Nil                == "nil"
ErrBadVertexFormat == "gfx: bad vertex format"
errMapBufferFailed == "gfx: mapbuffer failed"
\* runtime panics of Go: a slice expression s[lo:hi] with hi > cap(s), an
\* integer division by zero
PanicBounds        == "panic: slice bounds out of range"
PanicDivide        == "panic: integer divide by zero"

\* A byte of the backing array that belongs to a record written before the
\* last Clear: Clear keeps the array (verts[:0]), so these bytes stay in the
\* capacity.  The builder only ever moves bytes, so one marker outside 0..255
\* stands for all of them.
Stale == 999

\* map[VertexFormat]int: a function from the keys present
EmptyMap == <<>>
MapPut(m, k, x) == [c \in (DOMAIN m) \cup {k} |-> IF c = k THEN x ELSE m[c]]

\* the iteration orders `range` may take over a map with key set S
Perms(S) ==
    {s \in [1..Cardinality(S) -> S] : \A i, j \in 1..Cardinality(S) : i # j => s[i] # s[j]}

Zeros(n) == [k \in 1..n |-> 0]

\* float32 viewed as 4 bytes through unsafe.Pointer (little-endian targets)
F32Bytes(f) == <<f % 256, (f \div 256) % 256, (f \div 65536) % 256, (f \div 16777216) % 256>>

RECURSIVE FloatBytes(_)
FloatBytes(data) ==
    IF data = <<>> THEN <<>> ELSE F32Bytes(Head(data)) \o FloatBytes(Tail(data))

---------------------------------------------------------------------------
(* geometry.VertexBuilder: builder.go:29-173                               *)
(* verts is the slice's visible bytes, spare the bytes of its backing      *)
(* array between len and cap.  The offsets map is nil until the first      *)
(* successful offset call; a computed table has at least one entry, so the *)
(* empty map stands for nil.                                               *)

NewVertexBuilder(vf) ==
    [vf |-> vf, stride |-> Stride(vf), cur |-> 0, curvf |-> 0,
     lastdata |-> EmptyMap, offsets |-> EmptyMap, verts |-> <<>>, spare |-> <<>>]

Cap(b) == Len(b.verts) + Len(b.spare)
Mem(b) == b.verts \o b.spare

\* copy(b.verts[offs:offs+len(data)], data), for offs+len(data) <= cap
WriteMem(b, offs, data) ==
    LET mem == [k \in 1..Cap(b) |->
                    IF k > offs /\ k <= offs + Len(data) THEN data[k - offs] ELSE Mem(b)[k]]
    IN  [b EXCEPT !.verts = SubSeq(mem, 1, Len(b.verts)),
                  !.spare = SubSeq(mem, Len(b.verts) + 1, Cap(b))]

\* the loop with its two statements exchanged: offs += attribBytes(i) before
\* b.offsets[i] = offs
RECURSIVE OffsetLoop_addFirst(_, _, _, _)
OffsetLoop_addFirst(vf, i, offs, tab) ==
    IF i > MaxVertexFormat THEN tab
    ELSE IF HasBit(vf, i)
         THEN OffsetLoop_addFirst(vf, 2 * i, offs + attribBytes(i),
                                  MapPut(tab, i, offs + attribBytes(i)))
         ELSE OffsetLoop_addFirst(vf, 2 * i, offs, tab)

\* the loop that fills b.offsets
RECURSIVE OffsetLoop(_, _, _, _)
OffsetLoop(vf, i, offs, tab) ==
    IF i > MaxVertexFormat THEN tab
    ELSE IF HasBit(vf, i)
         THEN OffsetLoop(vf, 2 * i, offs + attribBytes(i), MapPut(tab, i, offs))
         ELSE OffsetLoop(vf, 2 * i, offs, tab)

\* offset without the test of the format: the lookup of a key the table lacks
\* gives 0
offset_noCheck(b, v) ==
    LET b1 == IF b.offsets = EmptyMap
              THEN [b EXCEPT !.offsets = OffsetLoop(b.vf, 1, 0, EmptyMap)]
              ELSE b
    IN  [vb |-> b1, val |-> IF v \in DOMAIN b1.offsets THEN b1.offsets[v] ELSE 0,
         panic |-> FALSE]

offset(b, v) ==
    IF ~HasBit(b.vf, v)
    THEN [vb |-> b, val |-> 0, panic |-> TRUE]
    ELSE LET b1 == IF b.offsets = EmptyMap
                   THEN [b EXCEPT !.offsets = OffsetLoop(b.vf, 1, 0, EmptyMap)]
                   ELSE b
         IN  [vb |-> b1, val |-> b1.offsets[v], panic |-> FALSE]

\* growth of append when the capacity does not suffice (runtime growslice for
\* small slices, before rounding to an allocation size class)
NewCap(old, need) == IF need > 2 * old THEN need ELSE 2 * old

\* next growing the slice over its capacity (b.verts[:len+stride]) where the
\* capacity suffices, instead of appending zeros
next_reslice(b) ==
    LET need == Len(b.verts) + b.stride
    IN  [b EXCEPT !.cur   = IF Len(b.verts) # 0 THEN b.cur + b.stride ELSE b.cur,
                  !.curvf = 0,
                  !.verts = IF need <= Cap(b)
                            THEN b.verts \o SubSeq(b.spare, 1, b.stride)
                            ELSE b.verts \o Zeros(b.stride),
                  !.spare = IF need <= Cap(b)
                            THEN SubSeq(b.spare, b.stride + 1, Len(b.spare))
                            ELSE Zeros(NewCap(Cap(b), need) - need)]

\* next without the test of len(b.verts): b.cur += b.stride at every call
next_curAlways(b) ==
    LET need == Len(b.verts) + b.stride
    IN  [b EXCEPT !.cur   = b.cur + b.stride,
                  !.curvf = 0,
                  !.verts = b.verts \o Zeros(b.stride),
                  !.spare = IF need <= Cap(b)
                            THEN SubSeq(b.spare, b.stride + 1, Len(b.spare))
                            ELSE Zeros(NewCap(Cap(b), need) - need)]

next(b) ==
    LET need == Len(b.verts) + b.stride
    IN  [b EXCEPT !.cur   = IF Len(b.verts) # 0 THEN b.cur + b.stride ELSE b.cur,
                  !.curvf = 0,
                  !.verts = b.verts \o Zeros(b.stride),
                  !.spare = IF need <= Cap(b)
                            THEN SubSeq(b.spare, b.stride + 1, Len(b.spare))
                            ELSE Zeros(NewCap(Cap(b), need) - need)]

\* set without b.cur in the offset (offs := b.offset(v)): it writes the first record
set_noCur(b, v, data) ==
    LET b1 == [b EXCEPT !.curvf = OrBit(@, v)]
        o  == offset(b1, v)
    IN  IF o.panic THEN [vb |-> b1, err |-> ErrBadVertexFormat]
        ELSE LET offs == o.val
                 b2   == [o.vb EXCEPT !.lastdata = MapPut(@, v, offs)]
             IN  IF offs + Len(data) > Cap(b2)
                 THEN [vb |-> b2, err |-> PanicBounds]
                 ELSE [vb |-> WriteMem(b2, offs, data), err |-> Nil]

\* set marking the channel in the format (b.vf |= v) instead of in curvf
set_markFormat(b, v, data) ==
    LET b1 == [b EXCEPT !.vf = OrBit(@, v)]
        o  == offset(b1, v)
    IN  IF o.panic THEN [vb |-> b1, err |-> ErrBadVertexFormat]
        ELSE LET offs == b1.cur + o.val
                 b2   == [o.vb EXCEPT !.lastdata = MapPut(@, v, offs)]
             IN  IF offs + Len(data) > Cap(b2)
                 THEN [vb |-> b2, err |-> PanicBounds]
                 ELSE [vb |-> WriteMem(b2, offs, data), err |-> Nil]

\* set that leaves a channel alone once it is marked on the current record
set_firstWins(b, v, data) ==
    IF HasBit(b.curvf, v) THEN [vb |-> b, err |-> Nil]
    ELSE LET b1 == [b EXCEPT !.curvf = OrBit(@, v)]
             o  == offset(b1, v)
         IN  IF o.panic THEN [vb |-> b1, err |-> ErrBadVertexFormat]
             ELSE LET offs == b1.cur + o.val
                      b2   == [o.vb EXCEPT !.lastdata = MapPut(@, v, offs)]
                  IN  IF offs + Len(data) > Cap(b2)
                      THEN [vb |-> b2, err |-> PanicBounds]
                      ELSE [vb |-> WriteMem(b2, offs, data), err |-> Nil]

\* set without b.curvf |= v
set_noMark(b, v, data) ==
    LET o == offset(b, v)
    IN  IF o.panic THEN [vb |-> b, err |-> ErrBadVertexFormat]
        ELSE LET offs == b.cur + o.val
                 b2   == [o.vb EXCEPT !.lastdata = MapPut(@, v, offs)]
             IN  IF offs + Len(data) > Cap(b2)
                 THEN [vb |-> b2, err |-> PanicBounds]
                 ELSE [vb |-> WriteMem(b2, offs, data), err |-> Nil]

set(b, v, data) ==
    LET b1 == [b EXCEPT !.curvf = OrBit(@, v)]
        o  == offset(b1, v)
    IN  IF o.panic THEN [vb |-> b1, err |-> ErrBadVertexFormat]
        ELSE LET offs == b1.cur + o.val
                 b2   == [o.vb EXCEPT !.lastdata = MapPut(@, v, offs)]
             IN  IF offs + Len(data) > Cap(b2)
                 THEN [vb |-> b2, err |-> PanicBounds]
                 ELSE [vb |-> WriteMem(b2, offs, data), err |-> Nil]

setf(b, v, data) == set(b, v, FloatBytes(data))

\* The keys of lastdata that fillVertex acts on.  A key that fails the test of
\* the loop is skipped wherever it comes, and set adds only the visited key to
\* curvf and to lastdata, so the iteration orders differ only in the order of
\* these keys.
FillKeys(b) == {i \in DOMAIN b.lastdata : HasBit(b.vf, i) /\ ~HasBit(b.curvf, i)}

RECURSIVE Ascending(_)
Ascending(S) ==
    IF S = {} THEN <<>>
    ELSE LET m == CHOOSE x \in S : \A y \in S : x <= y IN <<m>> \o Ascending(S \ {m})

\* the iteration orders of `range b.lastdata` that can differ in their effect:
\* the keys the loop skips first, then the others in every order
FillOrders(b) ==
    {Ascending((DOMAIN b.lastdata) \ FillKeys(b)) \o p : p \in Perms(FillKeys(b))}

\* the loop left after the first channel it carries forward (a return in
\* place of the next iteration)
RECURSIVE fillLoop_first(_, _, _)
fillLoop_first(b, order, k) ==
    IF k > Len(order) THEN [vb |-> b, err |-> Nil]
    ELSE LET i    == order[k]
             offs == b.lastdata[i]
         IN  IF HasBit(b.vf, i) /\ ~HasBit(b.curvf, i)
             THEN IF offs + attribBytes(i) > Cap(b)
                  THEN [vb |-> b, err |-> PanicBounds]
                  ELSE set(b, i, SubSeq(Mem(b), offs + 1, offs + attribBytes(i)))
             ELSE fillLoop_first(b, order, k + 1)

\* the loop with the arguments of its copy exchanged: the current record's
\* bytes are copied over the last explicit value
RECURSIVE fillLoop_swapped(_, _, _)
fillLoop_swapped(b, order, k) ==
    IF k > Len(order) THEN [vb |-> b, err |-> Nil]
    ELSE LET i    == order[k]
             offs == b.lastdata[i]
         IN  IF HasBit(b.vf, i) /\ ~HasBit(b.curvf, i)
             THEN LET o   == offset(b, i)
                      src == b.cur + o.val
                  IN  IF offs + attribBytes(i) > Cap(b) \/ src + attribBytes(i) > Cap(b)
                      THEN [vb |-> b, err |-> PanicBounds]
                      ELSE fillLoop_swapped(
                               WriteMem(o.vb, offs, SubSeq(Mem(b), src + 1, src + attribBytes(i))),
                               order, k + 1)
             ELSE fillLoop_swapped(b, order, k + 1)

\* the loop with the test of curvf inverted (b.curvf&i != 0): it acts on the
\* channels the current record has, not on those it lacks
RECURSIVE fillLoop_inverted(_, _, _)
fillLoop_inverted(b, order, k) ==
    IF k > Len(order) THEN [vb |-> b, err |-> Nil]
    ELSE LET i    == order[k]
             offs == b.lastdata[i]
         IN  IF HasBit(b.vf, i) /\ HasBit(b.curvf, i)
             THEN IF offs + attribBytes(i) > Cap(b)
                  THEN [vb |-> b, err |-> PanicBounds]
                  ELSE LET r == set(b, i, SubSeq(Mem(b), offs + 1, offs + attribBytes(i)))
                       IN  IF r.err # Nil THEN r ELSE fillLoop_inverted(r.vb, order, k + 1)
             ELSE fillLoop_inverted(b, order, k + 1)

\* fillVertex, with the keys of lastdata visited in the given order
RECURSIVE fillLoop(_, _, _)
fillLoop(b, order, k) ==
    IF k > Len(order) THEN [vb |-> b, err |-> Nil]
    ELSE LET i    == order[k]
             offs == b.lastdata[i]
         IN  IF HasBit(b.vf, i) /\ ~HasBit(b.curvf, i)
             THEN IF offs + attribBytes(i) > Cap(b)
                  THEN [vb |-> b, err |-> PanicBounds]
                  ELSE LET r == set(b, i, SubSeq(Mem(b), offs + 1, offs + attribBytes(i)))
                       IN  IF r.err # Nil THEN r ELSE fillLoop(r.vb, order, k + 1)
             ELSE fillLoop(b, order, k + 1)

fillVertex(b, order) == fillLoop(b, order, 1)

\* Clear without b.lastdata = make(map[VertexFormat]int)
VertexBuilderClear_keepLastdata(b) ==
    [b EXCEPT !.cur = 0, !.curvf = 0, !.verts = <<>>,
              !.spare = [k \in 1..Len(b.verts) |-> Stale] \o b.spare]

\* Clear without b.cur = 0
VertexBuilderClear_keepCur(b) ==
    [b EXCEPT !.lastdata = EmptyMap, !.curvf = 0, !.verts = <<>>,
              !.spare = [k \in 1..Len(b.verts) |-> Stale] \o b.spare]

VertexBuilderClear(b) ==
    [b EXCEPT !.lastdata = EmptyMap, !.cur = 0, !.curvf = 0, !.verts = <<>>,
              !.spare = [k \in 1..Len(b.verts) |-> Stale] \o b.spare]

\* Position without the call of fillVertex
Position_noFill(b, xyz, order) == setf(next(b), VertexPosition, xyz)

Position(b, xyz, order) ==
    LET f == fillVertex(b, order)
    IN  IF f.err # Nil THEN f ELSE setf(next(f.vb), VertexPosition, xyz)

Color(b, rgba) == set(b, VertexColor, rgba)

\* uint8(r * 255.0), for the floats 0.0 and 1.0
F32ToU8(f) == CASE f = 0 -> 0 [] f = 1065353216 -> 255

Colorf(b, rgba) == set(b, VertexColor, [k \in 1..4 |-> F32ToU8(rgba[k])])

Normal(b, xyz) == setf(b, VertexNormal, xyz)

Texcoord(b, uv) == setf(b, VertexTexcoord, uv)

VertexCount(b) ==
    IF b.stride = 0 THEN [err |-> PanicDivide, val |-> 0]
    ELSE [err |-> Nil, val |-> Len(b.verts) \div b.stride]

---------------------------------------------------------------------------
(* Destination buffers: VertexBuffer.SetVertices geometry.go:764-799,      *)
(* IndexBuffer.SetIndices geometry.go:836-864.  A destination is kept as   *)
(* its format, its count and the data last copied into its mapping.        *)

maxretries == 5

NoDest == [format |-> 0, count |-> 0, data |-> <<>>]

\* the retry loop; the first `fails` calls of gl.UnmapBuffer return false
RECURSIVE MapLoop(_, _)
MapLoop(retries, fails) ==
    IF retries < maxretries
    THEN IF retries >= fails THEN retries ELSE MapLoop(retries + 1, fails)
    ELSE retries

\* the number of gl.MapBuffer calls the loop makes for a source of n elements
MapAttempts(n, fails) ==
    IF n > 0
    THEN LET retries == MapLoop(0, fails)
         IN  IF retries < maxretries THEN retries + 1 ELSE maxretries
    ELSE 0

SetVertices(d, src, vf, fails) ==
    IF d.format # vf THEN [dest |-> d, err |-> ErrBadVertexFormat]
    ELSE IF Len(src) > 0 /\ MapLoop(0, fails) = maxretries
         THEN [dest |-> [d EXCEPT !.data = src], err |-> errMapBufferFailed]
         ELSE IF Stride(vf) = 0
              THEN [dest |-> [d EXCEPT !.data = src], err |-> PanicDivide]
              ELSE [dest |-> [d EXCEPT !.data = src, !.count = Len(src) \div Stride(vf)],
                    err |-> Nil]

SetIndices(d, src, fails) ==
    IF 2 * Len(src) > 0 /\ MapLoop(0, fails) = maxretries
    THEN [dest |-> [d EXCEPT !.data = src], err |-> errMapBufferFailed]
    ELSE [dest |-> [d EXCEPT !.data = src, !.count = Len(src)], err |-> Nil]

\* CopyVertices without the call of fillVertex
CopyVertices_noFill(b, d, order, fails) ==
    IF b.vf # d.format
    THEN [vb |-> b, dest |-> d, err |-> ErrBadVertexFormat]
    ELSE LET s == SetVertices(d, b.verts, b.vf, fails)
         IN  [vb |-> b, dest |-> s.dest, err |-> s.err]

CopyVertices(b, d, order, fails) ==
    LET f == fillVertex(b, order)
    IN  IF f.err # Nil THEN [vb |-> f.vb, dest |-> d, err |-> f.err]
        ELSE IF f.vb.vf # d.format
             THEN [vb |-> f.vb, dest |-> d, err |-> ErrBadVertexFormat]
             ELSE LET s == SetVertices(d, f.vb.verts, f.vb.vf, fails)
                  IN  [vb |-> f.vb, dest |-> s.dest, err |-> s.err]

---------------------------------------------------------------------------
(* geometry.IndexBuilder: builder.go:175-219.  idxsNil tells whether the   *)
(* idxs slice is nil, shared whether idxs has the backing array of the     *)
(* slice the caller passed to the last index call.                         *)

U16(x) == x % 65536

NewIndexBuilder == [idxs |-> <<>>, idxsNil |-> TRUE, nextidx |-> 0, shared |-> FALSE]

\* the loop of Indices over the caller's slice: acc.newnext is newnext, acc.out
\* the elements of idxs rewritten so far
RECURSIVE IndicesLoop(_, _, _, _)
IndicesLoop(nextidx, idxs, i, acc) ==
    IF i > Len(idxs) THEN acc
    ELSE LET idx == U16(idxs[i] + nextidx)
         IN  IndicesLoop(nextidx, idxs, i + 1,
                 [newnext |-> IF idx >= acc.newnext THEN U16(idx + 1) ELSE acc.newnext,
                  out     |-> Append(acc.out, idx)])

\* Indices with the loop working on a copy of the arguments: the caller's
\* slice stays as it was
Indices_onCopy(b, idxs) ==
    LET l == IndicesLoop(b.nextidx, idxs, 1, [newnext |-> b.nextidx, out |-> <<>>])
    IN  [ib   |-> [idxs    |-> b.idxs \o l.out,
                   idxsNil |-> b.idxsNil /\ Len(idxs) = 0,
                   nextidx |-> l.newnext,
                   shared  |-> FALSE],
         idxs |-> idxs]

\* Indices returns the builder and the caller's slice as the call leaves it
Indices(b, idxs) ==
    LET l == IndicesLoop(b.nextidx, idxs, 1, [newnext |-> b.nextidx, out |-> <<>>])
    IN  [ib   |-> [idxs    |-> b.idxs \o l.out,
                   idxsNil |-> b.idxsNil /\ Len(idxs) = 0,
                   nextidx |-> l.newnext,
                   shared  |-> FALSE],
         idxs |-> l.out]

\* SetIndices keeping the caller's slice (b.idxs = idxs) instead of a copy
IndexBuilderSetIndices_alias(b, idxs) ==
    [idxs |-> idxs, idxsNil |-> FALSE, nextidx |-> 0, shared |-> TRUE]

\* make gives idxs an array of its own
IndexBuilderSetIndices(b, idxs) ==
    [idxs |-> idxs, idxsNil |-> FALSE, nextidx |-> 0, shared |-> FALSE]

IndexCount(b) == Len(b.idxs)

CopyIndices(b, d, fails) == SetIndices(d, b.idxs, fails)

\* Clear without b.nextidx = 0
IndexBuilderClear_keepNext(b) == [b EXCEPT !.idxs = <<>>]

IndexBuilderClear(b) == [b EXCEPT !.idxs = <<>>, !.nextidx = 0]

---------------------------------------------------------------------------
(* The first GeometryBuffer: it builds vertices and indices with the same  *)
(* code as VertexBuilder and IndexBuilder (Position, set, fillVertex,      *)
(* Indices, SetIndices, Clear), and copies out into slices of the caller.  *)

\* copy(dst, src): the first min(len(dst), len(src)) elements
GoCopy(dst, src) == [k \in 1..Len(dst) |-> IF k <= Len(src) THEN src[k] ELSE dst[k]]

GeometryBufferIndexCount(v, x) == IF x.idxsNil THEN VertexCount(v).val ELSE Len(x.idxs)

GeometryBufferCopyIndices(x, buf) ==
    IF ~x.idxsNil
    THEN [buf |-> GoCopy(buf, x.idxs), err |-> Nil]
    ELSE [buf |-> [k \in 1..Len(buf) |-> U16(k - 1)], err |-> Nil]

GeometryBufferCopyVertices(v, buf, order) ==
    LET f == fillVertex(v, order)
    IN  IF f.err # Nil THEN [vb |-> f.vb, buf |-> buf, err |-> f.err]
        ELSE [vb |-> f.vb, buf |-> GoCopy(buf, f.vb.verts), err |-> Nil]

\* The loop of LayoutGeometry (shader.go:160-175, garbage.go:275-290): attrs
\* are the channels the shader has an attribute name for, located those whose
\* name the program has a location for; calls are the AttribPointer calls
\* made so far.
RECURSIVE LayoutLoop_skipUnlocated(_, _, _, _, _, _, _)
LayoutLoop_skipUnlocated(vf, attrs, located, i, offs, stride, calls) ==
    IF i > MaxVertexFormat THEN calls
    ELSE IF ~HasBit(vf, i)
         THEN LayoutLoop_skipUnlocated(vf, attrs, located, 2 * i, offs, stride, calls)
         ELSE IF i \notin attrs THEN calls
              ELSE IF i \in located
                   THEN LayoutLoop_skipUnlocated(vf, attrs, located, 2 * i,
                            offs + attribBytes(i), stride,
                            Append(calls, [channel |-> i, elems |-> attribElems(i),
                                           type |-> attribType(i),
                                           normalized |-> attribNormalized(i),
                                           stride |-> stride, offset |-> offs]))
                   ELSE LayoutLoop_skipUnlocated(vf, attrs, located, 2 * i, offs, stride, calls)

RECURSIVE LayoutLoop(_, _, _, _, _, _, _)
LayoutLoop(vf, attrs, located, i, offs, stride, calls) ==
    IF i > MaxVertexFormat THEN calls
    ELSE IF ~HasBit(vf, i)
         THEN LayoutLoop(vf, attrs, located, 2 * i, offs, stride, calls)
         ELSE IF i \notin attrs THEN calls
              ELSE LayoutLoop(vf, attrs, located, 2 * i, offs + attribBytes(i), stride,
                       IF i \in located
                       THEN Append(calls, [channel |-> i, elems |-> attribElems(i),
                                           type |-> attribType(i),
                                           normalized |-> attribNormalized(i),
                                           stride |-> stride, offset |-> offs])
                       ELSE calls)

PanicMoo == "panic: moo"

\* LayoutGeometry of a shader of format sf on vertices of format gf.  The
\* function of garbage.go panics when the two differ; Shader.LayoutGeometry
\* goes on with the shader's format.
LayoutGeometry(sf, gf, attrs, located, checked) ==
    IF checked /\ sf # gf
    THEN [calls |-> <<>>, err |-> PanicMoo]
    ELSE [calls |-> LayoutLoop(sf, attrs, located, 1, 0, Stride(sf), <<>>), err |-> Nil]

\* The later GeometryBuffer (geometry.go:973-1155) copies out into device
\* buffers, as the builders do.
DeviceIndexCount(v, x) == IF x.idxsNil THEN VertexCount(v).val ELSE Len(x.idxs)

DeviceCopyIndices(x, d, fails) == SetIndices(d, x.idxs, fails)

---------------------------------------------------------------------------
(* Bounds and the inputs the calls are made with                           *)

MaxVerts        == 3    \* vertices per buffer, VertexBuilder alone
MaxBuilderVerts == 4    \* vertices per buffer, Builder
MaxSetterVerts  == 2    \* vertices per buffer, where the setters' failures are looked at
MaxBufferVerts  == 2    \* vertices per buffer, GeometryBuffer
MaxQuadVerts    == 4    \* vertices per buffer, the quad of the benchmarks
MaxPairVerts    == 1    \* vertices per buffer, each of two builders in use together
MaxBenchReps    == 2    \* repetitions of the benchmark's quad looked at, late in the run
MaxIdxs         == 12   \* stored indices, IndexBuilder alone
MaxBuilderIdxs  == 6    \* stored indices, Builder
MaxReuseIdxs    == 7    \* stored indices, where the caller passes one slice again and again
MaxHandles      == 3    \* buffer handles that finalizers hand to the trash bin
MaxNodes        == 3    \* scene nodes
MaxChildren     == 2    \* length of a node's slice of children

F0 == 0             \* float32 0.0
F1 == 1065353216    \* float32 1.0

Channels == {VertexPosition, VertexColor, VertexColor1, VertexNormal, VertexTangent,
             VertexBitangent, VertexTexcoord, VertexTexcoord1, VertexTexcoord2,
             VertexTexcoord3, VertexTexcoord4, VertexTexcoord5, VertexTexcoord6,
             VertexTexcoord7, VertexUserData, VertexUserData1, VertexUserData2,
             VertexUserData3}

\* the formats the schema functions are applied to: every combination of
\* these channels, which take in each kind of channel, the lowest bit and
\* MaxVertexFormat
SchemaChannels == {VertexPosition, VertexColor, VertexColor1, VertexNormal,
                   VertexBitangent, VertexTexcoord, VertexTexcoord7, VertexUserData,
                   VertexUserData2, VertexUserData3}

RECURSIVE BitOr(_)
BitOr(S) == IF S = {} THEN 0 ELSE LET c == CHOOSE x \in S : TRUE IN c + BitOr(S \ {c})

AllFormats == {BitOr(S) : S \in SUBSET SchemaChannels}

\* (a format without Position is among SetterFormats)
VertexFormats == {0,
                  VertexPosition,
                  VertexPosition + VertexColor,
                  VertexPosition + VertexColor + VertexTexcoord}

BuilderFormats == {VertexPosition + VertexColor}

PositionArgs  == {<<F1, F0, F0>>}
ColorArgs     == {<<128, 0, 255, 255>>, <<0, 0, 0, 0>>}
NormalArgs    == {<<F0, F0, F1>>}
TexcoordArgs  == {<<F1, F0>>}
IndexArgs     == {<<>>, <<0, 2>>, <<0, 1, 2, 2, 0, 3>>, <<65535>>}

ColorfArgs    == {<<F1, F0, F1, F1>>}

BuilderPositionArgs == {<<F1, F0, F0>>}
BuilderColorArgs    == {<<128, 0, 255, 255>>}
BuilderIndexArgs    == {<<0, 1, 2>>}

\* what the caller of Indices puts into the slice it passes again and again
ReuseSlices == {<<0, 1, 2>>, <<0, 2>>, <<2, 0, 3>>, <<65535>>}

\* the calls of BenchmarkBuilderFatVerts
QuadFormats   == {VertexPosition + VertexColor + VertexTexcoord}
QuadIndexArgs == {<<0, 1, 2, 2, 0, 3>>}

\* The IndexBuilder after q >= 1 repetitions of the benchmark's body (four
\* Position calls, which leave it alone, and Indices(0,1,2,2,0,3)) on a new
\* builder, for q up to 16384: batch j is stored as 4(j-1) + <<0,1,2,2,0,3>>
\* and every batch moves nextidx on by 4.  Of the 6q indices stored, idxs
\* keeps the last batch: Indices appends to b.idxs and never reads it.
BenchPattern == <<0, 1, 2, 2, 0, 3>>

AfterReps(q) ==
    [idxs    |-> [k \in 1..6 |-> U16(4 * (q - 1) + BenchPattern[k])],
     idxsNil |-> FALSE,
     nextidx |-> U16(4 * q),
     shared  |-> FALSE]

\* the repetitions already made when the look at the benchmark begins
BenchStarts == 16284..16383

\* the formats of two builders in use together
PairFormats  == {VertexPosition + VertexColor, VertexColor + VertexNormal}
PairChannels == {VertexPosition, VertexColor, VertexNormal}

\* the formats of the builders in use while the attribute tables are queried
AttribFormats == {BitOr(S) : S \in SUBSET {VertexPosition, VertexColor1, VertexTexcoord,
                                            VertexUserData}}

\* the channels a shader may name and locate, and a shader format that is
\* not the builder's
LayoutChannels == {VertexPosition, VertexColor1, VertexTexcoord, VertexUserData}
LayoutOtherFormats == {VertexPosition + VertexNormal}

\* the sources handed to the device buffers (their lengths), the formats of
\* the VertexBuffers and of the calls, and the numbers of failing unmaps
UploadLens    == {0, 16, 32}
UploadFormats == {0, VertexPosition, VertexPosition + VertexColor}
UploadFails   == {0, maxretries - 1, maxretries, maxretries + 1}

\* the goroutines that run finalizers and those that call release
Finalizers == {1, 2}
Releasers  == {3, 4}

\* the formats of the builders the setters' failures are looked at on
SetterFormats == {0, VertexPosition, VertexPosition + VertexColor, VertexColor + VertexNormal}

\* the lengths of the slices the GeometryBuffer copies into, and what they
\* hold before the copy
IndexBufLens  == {0, 2, 3, 4}
VertexBufLens == {0, 16, 20, 32}
OldIndex == 65535
OldByte  == 255

\* the format of the destination: the builder's, or another one
DestFormats(vf) == {vf, VertexPosition + VertexNormal}

\* how many calls of gl.UnmapBuffer fail before one succeeds
UnmapFails == {0, 1, maxretries}

---------------------------------------------------------------------------
(* The state machine.  twin is a Builder constructed with the same format  *)
(* when the builder was constructed and again at every Clear; every call   *)
(* is made on both.                                                        *)

NewTwin(vf) == [vb |-> NewVertexBuilder(vf), ib |-> NewIndexBuilder, err |-> Nil, dest |-> NoDest]

RetNone == [stride |-> 0, count |-> 0]

\* the value of rewrote where it is not recorded
NotTracked == "not tracked"

\* what a call records in rewrote
Track(again) == IF rewrote = NotTracked THEN NotTracked ELSE IF again THEN "yes" ELSE "no"

\* the trash bin and the scene, which no builder touches
Elsewhere ==
    /\ trashbin = [Mutex |-> 0, buffers |-> <<>>]
    /\ pc = <<>>
    /\ handles = [made |-> 0, added |-> {}, deleted |-> <<>>]
    /\ nodes = <<>>

InitBuilder(vf, tr) ==
    /\ vb = NewVertexBuilder(vf)
    /\ ib = NewIndexBuilder
    /\ err = Nil
    /\ op = "New"
    /\ arg = <<>>
    /\ dest = NoDest
    /\ started = 0
    /\ explicit = <<>>
    /\ fin = 0
    /\ supplied = FALSE
    /\ replaced = FALSE
    /\ twin = NewTwin(vf)
    /\ ret = RetNone
    /\ rewrote = tr

InitTracking(vf, tr) == InitBuilder(vf, tr) /\ Elsewhere

InitWith(vf) == InitTracking(vf, NotTracked)

\* the record a setter wrote on, and the channel, if it wrote on one
Mark(ex, n, c) == IF n > 0 THEN [ex EXCEPT ![n] = @ \cup {c}] ELSE ex

PositionCall(Args, maxv) ==
    /\ started < maxv
    /\ \E p \in Args, o \in FillOrders(vb), to \in FillOrders(twin.vb) :
         LET r == Position(vb, p, o)
             t == Position(twin.vb, p, to)
         IN  /\ vb' = r.vb
             /\ err' = r.err
             /\ twin' = [twin EXCEPT !.vb = t.vb, !.err = t.err, !.dest = NoDest]
             /\ arg' = p
             /\ explicit' = Append(explicit, IF r.err = Nil THEN {VertexPosition} ELSE {})
    /\ op' = "Position"
    /\ started' = started + 1
    /\ fin' = 0
    /\ dest' = NoDest
    /\ rewrote' = Track(FALSE)
    /\ UNCHANGED <<ib, supplied, replaced, ret, trashbin, pc, handles, nodes>>

\* a per-channel setter: Color, Normal or Texcoord
SetterCall(name, c, r, t, a) ==
    /\ vb' = r.vb
    /\ err' = r.err
    /\ twin' = [twin EXCEPT !.vb = t.vb, !.err = t.err, !.dest = NoDest]
    /\ op' = name
    /\ arg' = a
    /\ explicit' = IF r.err = Nil THEN Mark(explicit, started, c) ELSE explicit
    /\ fin' = 0
    /\ dest' = NoDest
    /\ rewrote' = Track(r.err = Nil /\ started > 0 /\ c \in explicit[started])
    /\ UNCHANGED <<ib, started, supplied, replaced, ret, trashbin, pc, handles, nodes>>

ColorCall(Args) ==
    \E a \in Args : SetterCall("Color", VertexColor, Color(vb, a), Color(twin.vb, a), a)

ColorfCall(Args) ==
    \E a \in Args : SetterCall("Colorf", VertexColor, Colorf(vb, a), Colorf(twin.vb, a), a)

NormalCall(Args) ==
    \E a \in Args : SetterCall("Normal", VertexNormal, Normal(vb, a), Normal(twin.vb, a), a)

TexcoordCall(Args) ==
    \E a \in Args : SetterCall("Texcoord", VertexTexcoord, Texcoord(vb, a), Texcoord(twin.vb, a), a)

CopyVerticesCall ==
    /\ \E df \in DestFormats(vb.vf), fails \in UnmapFails,
          o \in FillOrders(vb), to \in FillOrders(twin.vb) :
         LET d == [NoDest EXCEPT !.format = df]
             r == CopyVertices(vb, d, o, fails)
             t == CopyVertices(twin.vb, d, to, fails)
         IN  /\ vb' = r.vb
             /\ err' = r.err
             /\ dest' = r.dest
             /\ twin' = [twin EXCEPT !.vb = t.vb, !.err = t.err, !.dest = t.dest]
             /\ arg' = <<df>>
    /\ op' = "CopyVertices"
    /\ fin' = IF fin < 2 THEN fin + 1 ELSE fin
    /\ rewrote' = Track(FALSE)
    /\ UNCHANGED <<ib, started, explicit, supplied, replaced, ret, trashbin, pc, handles, nodes>>

VertexBuilderClearCall ==
    /\ vb' = VertexBuilderClear(vb)
    /\ err' = Nil
    /\ op' = "Clear"
    /\ arg' = <<>>
    /\ dest' = NoDest
    /\ started' = 0
    /\ explicit' = <<>>
    /\ fin' = 0
    /\ twin' = [NewTwin(vb.vf) EXCEPT !.ib = twin.ib]
    /\ rewrote' = Track(FALSE)
    /\ UNCHANGED <<ib, supplied, replaced, ret, trashbin, pc, handles, nodes>>

IndicesCall(Args, maxi) ==
    /\ \E a \in Args :
         /\ Len(ib.idxs) + Len(a) <= maxi
         /\ ib' = Indices(ib, a).ib
         /\ twin' = [twin EXCEPT !.ib = Indices(twin.ib, a).ib, !.err = Nil, !.dest = NoDest]
         /\ arg' = a
    /\ err' = Nil
    /\ op' = "Indices"
    /\ dest' = NoDest
    /\ supplied' = TRUE
    /\ rewrote' = Track(FALSE)
    /\ UNCHANGED <<vb, started, explicit, fin, replaced, ret, trashbin, pc, handles, nodes>>

SetIndicesCall(Args, maxi) ==
    /\ \E a \in Args :
         /\ Len(a) <= maxi
         /\ ib' = IndexBuilderSetIndices(ib, a)
         /\ twin' = [twin EXCEPT !.ib = IndexBuilderSetIndices(twin.ib, a),
                                 !.err = Nil, !.dest = NoDest]
         /\ arg' = a
    /\ err' = Nil
    /\ op' = "SetIndices"
    /\ dest' = NoDest
    /\ supplied' = TRUE
    /\ replaced' = TRUE
    /\ rewrote' = Track(FALSE)
    /\ UNCHANGED <<vb, started, explicit, fin, ret, trashbin, pc, handles, nodes>>

CopyIndicesCall ==
    /\ \E fails \in UnmapFails :
         LET r == CopyIndices(ib, NoDest, fails)
             t == CopyIndices(twin.ib, NoDest, fails)
         IN  /\ err' = r.err
             /\ dest' = r.dest
             /\ twin' = [twin EXCEPT !.err = t.err, !.dest = t.dest]
    /\ op' = "CopyIndices"
    /\ arg' = <<>>
    /\ rewrote' = Track(FALSE)
    /\ UNCHANGED <<vb, ib, started, explicit, fin, supplied, replaced, ret, trashbin, pc, handles, nodes>>

IndexBuilderClearCall ==
    /\ ib' = IndexBuilderClear(ib)
    /\ err' = Nil
    /\ op' = "Clear"
    /\ arg' = <<>>
    /\ dest' = NoDest
    /\ replaced' = FALSE
    /\ twin' = [twin EXCEPT !.ib = NewIndexBuilder, !.err = Nil, !.dest = NoDest]
    /\ rewrote' = Track(FALSE)
    /\ UNCHANGED <<vb, started, explicit, fin, supplied, ret, trashbin, pc, handles, nodes>>

\* the caller writes to the slice it passed to SetIndices, after the call
CallerWriteCall ==
    /\ op = "SetIndices"
    /\ arg # <<>>
    /\ arg' = [arg EXCEPT ![1] = U16(@ + 1)]
    /\ ib' = IF ib.shared THEN [ib EXCEPT !.idxs = arg'] ELSE ib
    /\ twin' = IF twin.ib.shared THEN [twin EXCEPT !.ib.idxs = arg'] ELSE twin
    /\ op' = "caller write"
    /\ rewrote' = Track(FALSE)
    /\ UNCHANGED <<vb, err, dest, started, explicit, fin, supplied, replaced, ret, trashbin, pc, handles, nodes>>

\* Builder.Clear: builder.go:24-27
BuilderClearCall ==
    /\ vb' = VertexBuilderClear(vb)
    /\ ib' = IndexBuilderClear(ib)
    /\ err' = Nil
    /\ op' = "Clear"
    /\ arg' = <<>>
    /\ dest' = NoDest
    /\ started' = 0
    /\ explicit' = <<>>
    /\ fin' = 0
    /\ replaced' = FALSE
    /\ twin' = NewTwin(vb.vf)
    /\ rewrote' = Track(FALSE)
    /\ UNCHANGED <<supplied, ret, trashbin, pc, handles, nodes>>

\* the schema queries Stride and Count
StrideCountCall ==
    /\ ret' = [stride |-> Stride(vb.vf), count |-> Count(vb.vf)]
    /\ op' = "Stride"
    /\ rewrote' = Track(FALSE)
    /\ UNCHANGED <<vb, ib, err, arg, dest, started, explicit, fin, supplied, replaced, twin, trashbin, pc, handles, nodes>>

\* the attribute queries of one channel, as bindAttributes makes them
AttribCall ==
    /\ \E v \in Channels :
         ret' = [channel |-> v, bytes |-> attribBytes(v), type |-> attribType(v),
                 normalized |-> attribNormalized(v), elems |-> attribElems(v)]
    /\ op' = "attrib"
    /\ rewrote' = Track(FALSE)
    /\ UNCHANGED <<vb, ib, err, arg, dest, started, explicit, fin, supplied, replaced, twin, trashbin, pc, handles, nodes>>

\* a first use of the offset table, as made by set
OffsetCall ==
    /\ \E v \in Channels :
         LET o == offset(vb, v)
         IN  /\ vb' = o.vb
             /\ err' = IF o.panic THEN ErrBadVertexFormat ELSE Nil
    /\ op' = "offset"
    /\ rewrote' = Track(FALSE)
    /\ UNCHANGED <<ib, arg, dest, started, explicit, fin, supplied, replaced, twin, ret, trashbin, pc, handles, nodes>>

\* GeometryBuffer.CopyIndices into a slice of n indices
GeometryBufferCopyIndicesCall ==
    /\ \E n \in IndexBufLens :
         LET buf == [k \in 1..n |-> OldIndex]
             r   == GeometryBufferCopyIndices(ib, buf)
             t   == GeometryBufferCopyIndices(twin.ib, buf)
         IN  /\ err' = r.err
             /\ dest' = [format |-> vb.vf, count |-> n, data |-> r.buf]
             /\ twin' = [twin EXCEPT !.err = t.err,
                                     !.dest = [format |-> vb.vf, count |-> n, data |-> t.buf]]
             /\ arg' = <<n>>
    /\ op' = "GeometryBuffer.CopyIndices"
    /\ rewrote' = Track(FALSE)
    /\ UNCHANGED <<vb, ib, started, explicit, fin, supplied, replaced, ret, trashbin, pc, handles, nodes>>

\* GeometryBuffer.CopyVertices into a slice of n bytes
GeometryBufferCopyVerticesCall ==
    /\ \E n \in VertexBufLens, o \in FillOrders(vb), to \in FillOrders(twin.vb) :
         LET buf == [k \in 1..n |-> OldByte]
             r   == GeometryBufferCopyVertices(vb, buf, o)
             t   == GeometryBufferCopyVertices(twin.vb, buf, to)
         IN  /\ vb' = r.vb
             /\ err' = r.err
             /\ dest' = [format |-> vb.vf, count |-> n, data |-> r.buf]
             /\ twin' = [twin EXCEPT !.vb = t.vb, !.err = t.err,
                                     !.dest = [format |-> vb.vf, count |-> n, data |-> t.buf]]
             /\ arg' = <<n>>
    /\ op' = "GeometryBuffer.CopyVertices"
    /\ fin' = IF fin < 2 THEN fin + 1 ELSE fin
    /\ rewrote' = Track(FALSE)
    /\ UNCHANGED <<ib, started, explicit, supplied, replaced, ret, trashbin, pc, handles, nodes>>

\* GeometryBuffer.CopyIndices into a device IndexBuffer; ret.count is what
\* IndexCount() returns right before the call
DeviceCopyIndicesCall ==
    /\ \E fails \in UnmapFails :
         LET r == DeviceCopyIndices(ib, NoDest, fails)
             t == DeviceCopyIndices(twin.ib, NoDest, fails)
         IN  /\ err' = r.err
             /\ dest' = r.dest
             /\ twin' = [twin EXCEPT !.err = t.err, !.dest = t.dest]
    /\ ret' = [stride |-> vb.stride, count |-> DeviceIndexCount(vb, ib)]
    /\ op' = "device CopyIndices"
    /\ arg' = <<>>
    /\ rewrote' = Track(FALSE)
    /\ UNCHANGED <<vb, ib, started, explicit, fin, supplied, replaced, trashbin, pc, handles, nodes>>

\* LayoutGeometry for the vertices the builder packed (their format is the
\* builder's); ret is the sequence of AttribPointer calls it makes, arg the
\* shader's format and whether the function is the one that checks it
LayoutGeometryCall ==
    /\ \E sf \in {vb.vf} \cup LayoutOtherFormats, attrs \in SUBSET LayoutChannels,
          located \in SUBSET LayoutChannels, checked \in BOOLEAN :
         LET r == LayoutGeometry(sf, vb.vf, attrs, located, checked)
         IN  /\ ret' = r.calls
             /\ err' = r.err
             /\ arg' = <<sf, checked>>
    /\ op' = "LayoutGeometry"
    /\ rewrote' = Track(FALSE)
    /\ UNCHANGED <<vb, ib, dest, started, explicit, fin, supplied, replaced, twin, trashbin, pc, handles, nodes>>

\* VertexBuffer.SetVertices and IndexBuffer.SetIndices called on buffers that
\* are kept from call to call: dest is the VertexBuffer, twin.dest the
\* IndexBuffer.  arg is the length of the source, the number of failing
\* unmaps and (for vertices) the format passed; ret tells the number of map
\* attempts made and the count the buffer had before the call.
UploadVerticesCall ==
    /\ \E n \in UploadLens, vf \in UploadFormats, fails \in UploadFails :
         LET src == [k \in 1..n |-> OldByte]
             r   == SetVertices(dest, src, vf, fails)
         IN  /\ dest' = r.dest
             /\ err' = r.err
             /\ arg' = <<n, fails, vf>>
             /\ ret' = [attempts |-> IF dest.format # vf THEN 0 ELSE MapAttempts(n, fails),
                        before   |-> dest.count]
    /\ op' = "SetVertices"
    /\ UNCHANGED <<vb, ib, started, explicit, fin, supplied, replaced, twin, rewrote, trashbin, pc, handles, nodes>>

UploadIndicesCall ==
    /\ \E n \in UploadLens, fails \in UploadFails :
         LET src == [k \in 1..n |-> OldIndex]
             r   == SetIndices(twin.dest, src, fails)
         IN  /\ twin' = [twin EXCEPT !.dest = r.dest, !.err = r.err]
             /\ err' = r.err
             /\ arg' = <<n, fails>>
             /\ ret' = [attempts |-> MapAttempts(n, fails), before |-> twin.dest.count]
    /\ op' = "SetIndices"
    /\ UNCHANGED <<vb, ib, dest, started, explicit, fin, supplied, replaced, rewrote, trashbin, pc, handles, nodes>>

\* the Builder: both sub-builders behind one object
Init == \E vf \in BuilderFormats : InitWith(vf)

Next ==
    \/ PositionCall(BuilderPositionArgs, MaxBuilderVerts)
    \/ ColorCall(BuilderColorArgs)
    \/ CopyVerticesCall
    \/ IndicesCall(BuilderIndexArgs, MaxBuilderIdxs)
    \/ SetIndicesCall(BuilderIndexArgs, MaxBuilderIdxs)
    \/ CopyIndicesCall
    \/ BuilderClearCall

Spec == Init /\ [][Next]_vars

\* the first GeometryBuffer, which copies out into the caller's slices
InitBuffer == \E vf \in BuilderFormats : InitWith(vf)

NextBuffer ==
    \/ PositionCall(BuilderPositionArgs, MaxBufferVerts)
    \/ ColorCall(BuilderColorArgs)
    \/ IndicesCall(BuilderIndexArgs, MaxBuilderIdxs)
    \/ SetIndicesCall(BuilderIndexArgs, MaxBuilderIdxs)
    \/ GeometryBufferCopyIndicesCall
    \/ GeometryBufferCopyVerticesCall
    \/ BuilderClearCall

SpecBuffer == InitBuffer /\ [][NextBuffer]_vars

\* the GeometryBuffer that uploads to device buffers
InitDevice == \E vf \in BuilderFormats : InitWith(vf)

NextDevice ==
    \/ PositionCall(BuilderPositionArgs, MaxBufferVerts)
    \/ ColorCall(BuilderColorArgs)
    \/ IndicesCall(BuilderIndexArgs \cup {<<>>}, MaxBuilderIdxs)
    \/ SetIndicesCall(BuilderIndexArgs, MaxBuilderIdxs)
    \/ DeviceCopyIndicesCall
    \/ BuilderClearCall

SpecDevice == InitDevice /\ [][NextDevice]_vars

\* the VertexBuilder alone
InitVertex == \E vf \in VertexFormats : InitWith(vf)

NextVertex ==
    \/ PositionCall(PositionArgs, MaxVerts)
    \/ ColorCall(ColorArgs)
    \/ NormalCall(NormalArgs)
    \/ TexcoordCall(TexcoordArgs)
    \/ CopyVerticesCall
    \/ VertexBuilderClearCall

SpecVertex == InitVertex /\ [][NextVertex]_vars

\* the VertexBuilder with every setter, on formats that lack channels
InitSetter == \E vf \in SetterFormats : InitTracking(vf, "no")

NextSetter ==
    \/ PositionCall(PositionArgs, MaxSetterVerts)
    \/ ColorCall(ColorArgs)
    \/ ColorfCall(ColorfArgs)
    \/ NormalCall(NormalArgs)
    \/ TexcoordCall(TexcoordArgs)
    \/ CopyVerticesCall
    \/ VertexBuilderClearCall

SpecSetter == InitSetter /\ [][NextSetter]_vars

\* the Builder of the fat-vertex benchmark: one quad and its indices
InitQuad == \E vf \in QuadFormats : InitWith(vf)

NextQuad ==
    \/ PositionCall(BuilderPositionArgs, MaxQuadVerts)
    \/ ColorCall(BuilderColorArgs)
    \/ TexcoordCall(TexcoordArgs)
    \/ IndicesCall(QuadIndexArgs, MaxBuilderIdxs)
    \/ CopyVerticesCall

SpecQuad == InitQuad /\ [][NextQuad]_vars

\* the IndexBuilder alone
InitIndex == InitWith(VertexPosition)

NextIndex ==
    \/ IndicesCall(IndexArgs, MaxIdxs)
    \/ SetIndicesCall(IndexArgs, MaxIdxs)
    \/ CallerWriteCall
    \/ CopyIndicesCall
    \/ IndexBuilderClearCall

SpecIndex == InitIndex /\ [][NextIndex]_vars

\* A caller that keeps one slice s and passes it again and again:
\* b.Indices(s...).  ret is s as the last call left it (a variadic call with
\* s... hands the function the caller's own array), arg what the call was
\* given.
IndicesSliceCall ==
    /\ Len(ib.idxs) + Len(ret) <= MaxReuseIdxs
    /\ LET r == Indices(ib, ret)
       IN  /\ ib' = r.ib
           /\ ret' = r.idxs
           /\ twin' = [twin EXCEPT !.ib = Indices(twin.ib, ret).ib, !.err = Nil, !.dest = NoDest]
    /\ arg' = ret
    /\ err' = Nil
    /\ op' = "Indices"
    /\ dest' = NoDest
    /\ supplied' = TRUE
    /\ UNCHANGED <<vb, started, explicit, fin, replaced, rewrote, trashbin, pc, handles, nodes>>

\* the caller writes local indices into s anew
CallerFillCall ==
    /\ \E s \in ReuseSlices : ret' = s
    /\ op' = "caller fill"
    /\ arg' = <<>>
    /\ UNCHANGED <<vb, ib, err, dest, started, explicit, fin, supplied, replaced, twin, rewrote, trashbin, pc, handles, nodes>>

InitReuse ==
    \E s \in ReuseSlices :
        /\ vb = NewVertexBuilder(VertexPosition)
        /\ ib = NewIndexBuilder
        /\ twin = NewTwin(VertexPosition)
        /\ err = Nil
        /\ op = "New"
        /\ arg = <<>>
        /\ dest = NoDest
        /\ started = 0
        /\ explicit = <<>>
        /\ fin = 0
        /\ supplied = FALSE
        /\ replaced = FALSE
        /\ ret = s
        /\ rewrote = NotTracked
        /\ Elsewhere

NextReuse ==
    \/ IndicesSliceCall
    \/ IndicesCall({<<>>}, MaxReuseIdxs)
    \/ CallerFillCall

SpecReuse == InitReuse /\ [][NextReuse]_vars

\* Two VertexBuilders of different formats in use together: vb is the first,
\* twin.vb the second, and every call is made on either.  op, arg and err tell
\* of the last call; arg begins with the builder it was made on.
Sel(who) == IF who = 1 THEN vb ELSE twin.vb

Put(who, b) ==
    /\ vb' = IF who = 1 THEN b ELSE vb
    /\ twin' = IF who = 2 THEN [twin EXCEPT !.vb = b] ELSE twin

PairOffsetCall ==
    /\ \E who \in 1..2, v \in PairChannels :
         LET o == offset(Sel(who), v)
         IN  /\ Put(who, o.vb)
             /\ err' = IF o.panic THEN ErrBadVertexFormat ELSE Nil
             /\ arg' = <<who, v, o.val>>
    /\ op' = "offset"
    /\ UNCHANGED <<ib, dest, started, explicit, fin, supplied, replaced, ret, rewrote, trashbin, pc, handles, nodes>>

PairPositionCall ==
    /\ \E who \in 1..2, p \in PositionArgs : \E o \in FillOrders(Sel(who)) :
         LET r == Position(Sel(who), p, o)
         IN  /\ Len(Sel(who).verts) < MaxPairVerts * Sel(who).stride
             /\ Put(who, r.vb)
             /\ err' = r.err
             /\ arg' = <<who>> \o p
    /\ op' = "Position"
    /\ UNCHANGED <<ib, dest, started, explicit, fin, supplied, replaced, ret, rewrote, trashbin, pc, handles, nodes>>

PairColorCall ==
    /\ \E who \in 1..2, a \in BuilderColorArgs :
         LET r == Color(Sel(who), a)
         IN  /\ Put(who, r.vb)
             /\ err' = r.err
             /\ arg' = <<who>> \o a
    /\ op' = "Color"
    /\ UNCHANGED <<ib, dest, started, explicit, fin, supplied, replaced, ret, rewrote, trashbin, pc, handles, nodes>>

PairCopyVerticesCall ==
    /\ \E who \in 1..2 : \E o \in FillOrders(Sel(who)) :
         LET r == CopyVertices(Sel(who), [NoDest EXCEPT !.format = Sel(who).vf], o, 0)
         IN  /\ Put(who, r.vb)
             /\ err' = r.err
             /\ dest' = r.dest
             /\ arg' = <<who>>
    /\ op' = "CopyVertices"
    /\ UNCHANGED <<ib, started, explicit, fin, supplied, replaced, ret, rewrote, trashbin, pc, handles, nodes>>

PairClearCall ==
    /\ \E who \in 1..2 :
         /\ Put(who, VertexBuilderClear(Sel(who)))
         /\ arg' = <<who>>
    /\ err' = Nil
    /\ op' = "Clear"
    /\ UNCHANGED <<ib, dest, started, explicit, fin, supplied, replaced, ret, rewrote, trashbin, pc, handles, nodes>>

InitPair ==
    \E vf \in PairFormats : \E tf \in PairFormats \ {vf} :
        /\ vb = NewVertexBuilder(vf)
        /\ twin = NewTwin(tf)
        /\ ib = NewIndexBuilder
        /\ err = Nil
        /\ op = "New"
        /\ arg = <<>>
        /\ dest = NoDest
        /\ started = 0
        /\ explicit = <<>>
        /\ fin = 0
        /\ supplied = FALSE
        /\ replaced = FALSE
        /\ ret = RetNone
        /\ rewrote = NotTracked
        /\ Elsewhere

NextPair ==
    \/ PairOffsetCall
    \/ PairPositionCall
    \/ PairColorCall
    \/ PairCopyVerticesCall
    \/ PairClearCall

SpecPair == InitPair /\ [][NextPair]_vars

\* The IndexBuilder of BenchmarkBuilderTinyVerts, late in the run: started
\* is the number of vertices started when the look begins, four for each
\* repetition made.
InitBench ==
    \E q \in BenchStarts :
        /\ vb = NewVertexBuilder(VertexPosition)
        /\ ib = AfterReps(q)
        /\ twin = NewTwin(VertexPosition)
        /\ err = Nil
        /\ op = "New"
        /\ arg = <<>>
        /\ dest = NoDest
        /\ started = 4 * q
        /\ explicit = <<>>
        /\ fin = 0
        /\ supplied = TRUE
        /\ replaced = FALSE
        /\ ret = RetNone
        /\ rewrote = NotTracked
        /\ Elsewhere

NextBench == IndicesCall({BenchPattern}, 6 * (MaxBenchReps + 1))

SpecBench == InitBench /\ [][NextBench]_vars

\* the attribute tables, queried while a builder of some format is in use
InitAttrib == \E vf \in AttribFormats : InitWith(vf)

NextAttrib == AttribCall \/ OffsetCall

SpecAttrib == InitAttrib /\ [][NextAttrib]_vars

\* the layout a shader binds for the vertices of a builder
InitLayout == \E vf \in AttribFormats : InitWith(vf)

NextLayout == LayoutGeometryCall \/ OffsetCall

SpecLayout == InitLayout /\ [][NextLayout]_vars

\* the device buffers alone
InitUpload ==
    \E vf \in UploadFormats :
        /\ vb = NewVertexBuilder(vf)
        /\ ib = NewIndexBuilder
        /\ twin = NewTwin(vf)
        /\ err = Nil
        /\ op = "New"
        /\ arg = <<>>
        /\ dest = [NoDest EXCEPT !.format = vf]
        /\ started = 0
        /\ explicit = <<>>
        /\ fin = 0
        /\ supplied = FALSE
        /\ replaced = FALSE
        /\ ret = [attempts |-> 0, before |-> 0]
        /\ rewrote = NotTracked
        /\ Elsewhere

NextUpload == UploadVerticesCall \/ UploadIndicesCall

SpecUpload == InitUpload /\ [][NextUpload]_vars

---------------------------------------------------------------------------
(* The trash bin: garbage.go:8-40.  Finalizers call addBuffer, checkpoints *)
(* call release, on goroutines of their own; every statement of the two    *)
(* functions is a step.  trashbin.Mutex is the goroutine that holds the    *)
(* embedded sync.Mutex, 0 when none does.                                  *)

Idle == [fn |-> "", at |-> "idle", b |-> 0]

At(t, fn, at) == pc[t].fn = fn /\ pc[t].at = at

Goto(t, at) == pc' = [pc EXCEPT ![t].at = at]

\* a Lock that returns at once, whoever holds the mutex
MutexLock_noWait(g) == TRUE

\* g.Lock() returns only while no goroutine holds the mutex
MutexLock(g) == g.Mutex = 0

\* a finalizer runs and calls trashbin.addBuffer with the handle of its buffer
AddBufferCall(t) ==
    /\ t \in Finalizers
    /\ pc[t] = Idle
    /\ handles.made < MaxHandles
    /\ pc' = [pc EXCEPT ![t] = [fn |-> "addBuffer", at |-> "Lock", b |-> handles.made + 1]]
    /\ handles' = [handles EXCEPT !.made = @ + 1]
    /\ UNCHANGED <<builderVars, trashbin, nodes>>

\* a checkpoint calls trashbin.release
ReleaseCall(t) ==
    /\ t \in Releasers
    /\ pc[t] = Idle
    /\ pc' = [pc EXCEPT ![t] = [fn |-> "release", at |-> "Lock", b |-> 0]]
    /\ UNCHANGED <<builderVars, trashbin, handles, nodes>>

\* g.Lock()
LockStep(t) ==
    /\ pc[t].at = "Lock"
    /\ MutexLock(trashbin)
    /\ trashbin' = [trashbin EXCEPT !.Mutex = t]
    /\ Goto(t, IF pc[t].fn = "addBuffer" THEN "append" ELSE "len")
    /\ UNCHANGED <<builderVars, handles, nodes>>

\* g.buffers = append(g.buffers, b)
AddBufferAppend(t) ==
    /\ At(t, "addBuffer", "append")
    /\ trashbin' = [trashbin EXCEPT !.buffers = Append(@, pc[t].b)]
    /\ handles' = [handles EXCEPT !.added = @ \cup {pc[t].b}]
    /\ Goto(t, "Unlock")
    /\ UNCHANGED <<builderVars, nodes>>

\* if len(g.buffers) > 0
ReleaseLen(t) ==
    /\ At(t, "release", "len")
    /\ Goto(t, IF Len(trashbin.buffers) > 0 THEN "DeleteBuffers" ELSE "Unlock")
    /\ UNCHANGED <<builderVars, trashbin, handles, nodes>>

\* gl.DeleteBuffers(g.buffers)
ReleaseDeleteBuffers(t) ==
    /\ At(t, "release", "DeleteBuffers")
    /\ handles' = [handles EXCEPT !.deleted = @ \o trashbin.buffers]
    /\ Goto(t, "nil")
    /\ UNCHANGED <<builderVars, trashbin, nodes>>

\* g.buffers = nil
ReleaseNil(t) ==
    /\ At(t, "release", "nil")
    /\ trashbin' = [trashbin EXCEPT !.buffers = <<>>]
    /\ Goto(t, "Unlock")
    /\ UNCHANGED <<builderVars, handles, nodes>>

\* g.Unlock(), deferred in release; the call returns
UnlockStep(t) ==
    /\ pc[t].at = "Unlock"
    /\ trashbin' = [trashbin EXCEPT !.Mutex = 0]
    /\ pc' = [pc EXCEPT ![t] = Idle]
    /\ UNCHANGED <<builderVars, handles, nodes>>

InitGarbage ==
    /\ InitBuilder(VertexPosition, NotTracked)
    /\ trashbin = [Mutex |-> 0, buffers |-> <<>>]
    /\ pc = [t \in Finalizers \cup Releasers |-> Idle]
    /\ handles = [made |-> 0, added |-> {}, deleted |-> <<>>]
    /\ nodes = <<>>

NextGarbage ==
    \E t \in Finalizers \cup Releasers :
        \/ AddBufferCall(t)
        \/ ReleaseCall(t)
        \/ LockStep(t)
        \/ AddBufferAppend(t)
        \/ ReleaseLen(t)
        \/ ReleaseDeleteBuffers(t)
        \/ ReleaseNil(t)
        \/ UnlockStep(t)

SpecGarbage == InitGarbage /\ [][NextGarbage]_vars

---------------------------------------------------------------------------
(* Scene nodes: scenes/object.go:22-74.  nodes[n] is the Node n; parent is *)
(* 0 for nil, children the slice of child objects.  Every node is its own  *)
(* outer object (initObject).                                              *)

\* the first index k of ch whose node has the id wanted, 0 when there is none
RECURSIVE FindId(_, _, _, _)
FindId(ns, ch, id, k) ==
    IF k > Len(ch) THEN 0
    ELSE IF ns[ch[k]].id = id THEN k ELSE FindId(ns, ch, id, k + 1)

\* append(s[:i], s[i+1:]...) for the element at place k = i + 1
Cut(s, k) == SubSeq(s, 1, k - 1) \o SubSeq(s, k + 1, Len(s))

\* Node.Remove: the loop runs over o's own children, and the index found is
\* used on the parent's
NodeRemove(ns, o) ==
    IF ns[o].parent = 0 THEN [nodes |-> ns, err |-> Nil]
    ELSE LET p == ns[o].parent
             k == FindId(ns, ns[o].children, ns[o].id, 1)
         IN  IF k = 0 THEN [nodes |-> ns, err |-> Nil]
             ELSE IF k > Len(ns[p].children) THEN [nodes |-> ns, err |-> PanicBounds]
                  ELSE [nodes |-> [ns EXCEPT ![p].children = Cut(@, k)], err |-> Nil]

\* Node.AddChild
NodeAddChild(ns, o, c) ==
    LET r == NodeRemove(ns, c)
    IN  IF r.err # Nil THEN r
        ELSE [nodes |-> [r.nodes EXCEPT ![c].parent = o,
                                        ![o].children = Append(@, c)],
              err   |-> Nil]

\* Node.SetParent; p = 0 is nil
NodeSetParent(ns, o, p) ==
    IF p = 0 THEN NodeRemove(ns, o) ELSE NodeAddChild(ns, p, o)

SceneCall(name, a, r) ==
    /\ nodes' = r.nodes
    /\ err' = r.err
    /\ op' = name
    /\ arg' = a
    /\ UNCHANGED <<vb, ib, dest, started, explicit, fin, supplied, replaced, twin, ret, rewrote,
                   trashbin, pc, handles>>

AddChildCall ==
    \E o \in DOMAIN nodes, c \in DOMAIN nodes :
        /\ o # c
        /\ Len(nodes[o].children) < MaxChildren
        /\ SceneCall("AddChild", <<o, c>>, NodeAddChild(nodes, o, c))

SetParentCall ==
    \E o \in DOMAIN nodes, p \in {0} \cup DOMAIN nodes :
        /\ o # p
        /\ p # 0 => Len(nodes[p].children) < MaxChildren
        /\ SceneCall("SetParent", <<o, p>>, NodeSetParent(nodes, o, p))

RemoveCall ==
    \E o \in DOMAIN nodes : SceneCall("Remove", <<o>>, NodeRemove(nodes, o))

\* The source never assigns Node.id, so every id is 0; code outside it may
\* give each node an id of its own.
InitScene ==
    /\ InitBuilder(VertexPosition, NotTracked)
    /\ trashbin = [Mutex |-> 0, buffers |-> <<>>]
    /\ pc = <<>>
    /\ handles = [made |-> 0, added |-> {}, deleted |-> <<>>]
    /\ \E distinct \in BOOLEAN :
           nodes = [n \in 1..MaxNodes |->
                       [id |-> IF distinct THEN n ELSE 0, parent |-> 0, children |-> <<>>]]

NextScene == AddChildCall \/ SetParentCall \/ RemoveCall

SpecScene == InitScene /\ [][NextScene]_vars

\* the schema functions over the formats of AllFormats
InitFormat == \E vf \in AllFormats : InitWith(vf)

NextFormat == StrideCountCall \/ OffsetCall

SpecFormat == InitFormat /\ [][NextFormat]_vars

---------------------------------------------------------------------------
(* What the specification says of the schema, stated apart from the code   *)

ColorChannels    == {VertexColor, VertexColor1}
TexcoordChannels == {VertexTexcoord, VertexTexcoord1, VertexTexcoord2, VertexTexcoord3,
                     VertexTexcoord4, VertexTexcoord5, VertexTexcoord6, VertexTexcoord7}
UserDataChannels == {VertexUserData, VertexUserData1, VertexUserData2, VertexUserData3}

\* 12 bytes for 3-float channels, 4 for a colour, 8 for a texcoord, 16 for user data
ByteSize(c) ==
    IF c \in ColorChannels THEN 4
    ELSE IF c \in TexcoordChannels THEN 8
    ELSE IF c \in UserDataChannels THEN 16
    ELSE 12

\* the channels whose bit is set in a format
ChannelsOf(vf) == {c \in Channels : (vf \div c) % 2 = 1}

RECURSIVE SumBytes(_)
SumBytes(S) ==
    IF S = {} THEN 0
    ELSE LET c == CHOOSE x \in S : TRUE IN ByteSize(c) + SumBytes(S \ {c})

\* where channel c lies in a record: after the channels with lower bits
ChannelOffset(vf, c) == SumBytes({i \in ChannelsOf(vf) : i < c})

\* the bytes of channel c in record k (records counted from 1)
RecordBytes(b, k, c) ==
    SubSeq(b.verts, (k - 1) * b.stride + ChannelOffset(b.vf, c) + 1,
                    (k - 1) * b.stride + ChannelOffset(b.vf, c) + ByteSize(c))

\* record k has been finalized: a later vertex was started, or it is the
\* current record and the last call was CopyVertices
Finalized(k) == k < started \/ (k = started /\ op = "CopyVertices")

---------------------------------------------------------------------------
(* Claims                                                                  *)

\* C1: carry-forward.  After any calls, every finalized record but the first
\* holds, for each channel of the format that no setter wrote on that record,
\* the bytes the record before it holds for that channel.
C1_CarryForward ==
    \A k \in 2..started :
        Finalized(k) =>
            \A c \in ChannelsOf(vb.vf) \ explicit[k] :
                RecordBytes(vb, k, c) = RecordBytes(vb, k - 1, c)

\* C1 witness: three vertices, the colour set on the first only, and after
\* CopyVertices the third holds the colour the second carried forward.
C1_Witness ==
    /\ vb.vf = VertexPosition + VertexColor
    /\ started = 3
    /\ op = "CopyVertices"
    /\ VertexColor \in explicit[1]
    /\ VertexColor \notin explicit[2] \cup explicit[3]
    /\ RecordBytes(vb, 3, VertexColor) = <<128, 0, 255, 255>>

\* C2: the buffer holds one stride of bytes per vertex started, and
\* VertexCount() returns the number of vertices started.
C2_VertexCount ==
    /\ Len(vb.verts) = started * vb.stride
    /\ VertexCount(vb) = [err |-> Nil, val |-> started]

\* C3: Stride(F) is the sum of the byte sizes of the channels set in F, and
\* Count(F) the number of channels set in F, for the stride a builder is
\* constructed with and for the values the queries return.
C3_StrideCount ==
    /\ vb.stride = SumBytes(ChannelsOf(vb.vf))
    /\ (op = "Stride" \/ ret # RetNone) =>
           /\ ret.stride = SumBytes(ChannelsOf(vb.vf))
           /\ ret.count = Cardinality(ChannelsOf(vb.vf))

\* C3 witness: the queries answered for a format with a channel of each size.
C3_Witness ==
    /\ vb.vf = VertexPosition + VertexColor + VertexTexcoord7 + VertexUserData3
    /\ op = "Stride"
    /\ ret = [stride |-> 40, count |-> 4]

\* C4: once computed, the offset table has an entry for exactly the channels
\* of the format, and the ranges [offset(c), offset(c)+ByteSize(c)) tile
\* [0, stride) without gap or overlap, in ascending order of channel bit.
C4_OffsetsTile ==
    vb.offsets # EmptyMap =>
        /\ DOMAIN vb.offsets = ChannelsOf(vb.vf)
        /\ \A c \in DOMAIN vb.offsets :
               vb.offsets[c] >= 0 /\ vb.offsets[c] + ByteSize(c) <= vb.stride
        /\ \A p \in 0..(vb.stride - 1) :
               Cardinality({c \in DOMAIN vb.offsets :
                               vb.offsets[c] <= p /\ p < vb.offsets[c] + ByteSize(c)}) = 1
        /\ \A c, d \in DOMAIN vb.offsets : c < d => vb.offsets[c] < vb.offsets[d]

\* C4 witness: a computed table for a format of four channels of different sizes.
C4_Witness ==
    /\ vb.vf = VertexPosition + VertexColor + VertexTexcoord7 + VertexUserData3
    /\ vb.offsets # EmptyMap
    /\ vb.offsets[VertexUserData3] = 24

\* the largest element of a non-empty sequence of numbers
MaxOf(q) == CHOOSE m \in {q[i] : i \in 1..Len(q)} : \A i \in 1..Len(q) : q[i] <= m

\* C5: Indices appends each supplied index plus the nextBase held before the
\* call and advances nextBase by the largest supplied index plus one (a call
\* without indices leaves it as it is).
C5_Rebase ==
    [][op' = "Indices" =>
         /\ ib'.idxs = ib.idxs \o [k \in 1..Len(arg') |-> arg'[k] + ib.nextidx]
         /\ ib'.nextidx = IF arg' = <<>> THEN ib.nextidx
                          ELSE ib.nextidx + MaxOf(arg') + 1]_vars

\* C6: as long as only Indices (and Clear) were called, nextBase is one more
\* than the largest index stored (zero while none is stored).
C6_NextBase ==
    ~replaced =>
        ib.nextidx = IF ib.idxs = <<>> THEN 0 ELSE MaxOf(ib.idxs) + 1

\* C7: identity fallback.  A Builder that never had an index call reports
\* IndexCount() = VertexCount() and copies out the indices 0..VertexCount()-1.
C7_IdentityFallback ==
    ~supplied =>
        /\ IndexCount(ib) = VertexCount(vb).val
        /\ (op = "CopyIndices" /\ err = Nil) =>
               dest.data = [k \in 1..VertexCount(vb).val |-> k - 1]

\* C8: round trip.  After Clear, any calls give what they give on a freshly
\* constructed Builder: the vertex bytes, VertexCount, IndexCount, the
\* copied-out vertices and indices, and the failures.
C8_RoundTrip ==
    /\ vb.verts = twin.vb.verts
    /\ VertexCount(vb) = VertexCount(twin.vb)
    /\ IndexCount(ib) = IndexCount(twin.ib)
    /\ ib.idxs = twin.ib.idxs
    /\ dest = twin.dest
    /\ err = twin.err

\* C9: VertexBuilder.Clear leaves the buffer empty, no channel marked as
\* written and no last-written offset, and keeps the format and the stride.
C9_ClearFrame ==
    [][op' = "Clear" =>
         /\ vb'.verts = <<>>
         /\ vb'.curvf = 0
         /\ vb'.lastdata = EmptyMap
         /\ vb'.vf = vb.vf
         /\ vb'.stride = vb.stride]_vars

\* C9 witness: a Clear of a builder that held two vertices or more and had
\* computed its offset table.
C9_Witness ==
    /\ op = "Clear"
    /\ vb.vf = VertexPosition + VertexColor
    /\ vb.verts = <<>>
    /\ Len(vb.spare) >= 2 * vb.stride
    /\ vb.offsets # EmptyMap

\* C10: finalize is idempotent.  A CopyVertices that follows a CopyVertices
\* with no Position, setter or Clear between them leaves the builder as it is
\* and hands over the same bytes; and the carry-forward of a builder without
\* vertices does not fail and leaves the buffer empty.
C10_FinalizeIdempotent ==
    [][op' = "CopyVertices" =>
         /\ fin >= 1 => (vb' = vb /\ (err' = Nil /\ err = Nil => dest'.data = dest.data))
         /\ started' = 0 => (err' # PanicBounds /\ vb'.verts = <<>>)]_vars

\* C10 witness: a second CopyVertices in a row on two vertices, the second
\* of which holds a carried-forward colour.
C10_Witness ==
    /\ vb.vf = VertexPosition + VertexColor
    /\ fin = 2
    /\ op = "CopyVertices"
    /\ err = Nil
    /\ started = 2
    /\ VertexColor \notin explicit[2]
    /\ RecordBytes(vb, 2, VertexColor) = <<128, 0, 255, 255>>
    /\ dest.data = vb.verts

\* C11: a channel of the format that no setter wrote on any record up to and
\* including record k is all zero bytes in record k once k is finalized.
C11_NeverSetZero ==
    \A k \in 1..started :
        Finalized(k) =>
            \A c \in ChannelsOf(vb.vf) :
                (\A j \in 1..k : c \notin explicit[j]) =>
                    RecordBytes(vb, k, c) = Zeros(ByteSize(c))

\* C11 witness: vertices built again after a Clear, which left old colour
\* bytes in the capacity, with the colour never set since: the second
\* record's colour is zero after CopyVertices.
C11_Witness ==
    /\ vb.vf = VertexPosition + VertexColor
    /\ started = 2
    /\ op = "CopyVertices"
    /\ VertexColor \notin explicit[1] \cup explicit[2]
    /\ VertexPosition \in explicit[2]
    /\ Stale \in {vb.spare[i] : i \in 1..Len(vb.spare)}
    /\ RecordBytes(vb, 2, VertexColor) = <<0, 0, 0, 0>>

\* the channel a setter writes and the bytes it is given
SetterChannel(name) ==
    CASE name = "Position" -> VertexPosition
      [] name = "Color"    -> VertexColor
      [] name = "Colorf"   -> VertexColor
      [] name = "Normal"   -> VertexNormal
      [] name = "Texcoord" -> VertexTexcoord

SetterBytes(name, a) ==
    IF name = "Color" THEN a
    ELSE IF name = "Colorf" THEN [k \in 1..4 |-> IF a[k] = F1 THEN 255 ELSE 0]
    ELSE FloatBytes(a)

\* C12: last write wins.  A setter that writes a channel already written on
\* the current record leaves the record holding the later value and the
\* last-written offset of the channel at this record's slot; and starting
\* the next vertex or finalizing leaves what the setters wrote on the record
\* as it is, so that it is the later value that is carried forward.
C12_LastWriteWins ==
    [][/\ rewrote' = "yes" =>
            LET c == SetterChannel(op')
            IN  /\ RecordBytes(vb', started, c) = SetterBytes(op', arg')
                /\ vb'.lastdata[c] = (started - 1) * vb.stride + ChannelOffset(vb.vf, c)
       /\ (op' \in {"Position", "CopyVertices"} /\ started > 0) =>
            \A c \in explicit[started] :
                RecordBytes(vb', started, c) = RecordBytes(vb, started, c)]_vars

\* C12 witness: the colour written again on the second record, which then
\* holds the later value while the first record keeps another.
C12_Witness ==
    /\ rewrote = "yes"
    /\ op = "Color"
    /\ arg = <<0, 0, 0, 0>>
    /\ started = 2
    /\ RecordBytes(vb, 1, VertexColor) = <<128, 0, 255, 255>>
    /\ RecordBytes(vb, 2, VertexColor) = <<0, 0, 0, 0>>
    /\ vb.lastdata[VertexColor] = 28

Setters == {"Position", "Color", "Colorf", "Normal", "Texcoord"}

\* C13: a setter for a channel whose bit the format lacks ends with the
\* bad-vertex-format error, whatever the state it is called in.
C13_AbsentChannelFails ==
    [][(op' \in Setters /\ SetterChannel(op') \notin ChannelsOf(vb.vf)) =>
           err' = ErrBadVertexFormat]_vars

\* C13 witness: Normal called on a Position|Color builder with a vertex
\* started has ended with the error.
C13_Witness ==
    /\ vb.vf = VertexPosition + VertexColor
    /\ op = "Normal"
    /\ started >= 1
    /\ err = ErrBadVertexFormat

\* C14: a per-channel setter called while no vertex is started (on a fresh
\* builder or after Clear) fails and writes nothing: not into the buffer, and
\* not into the bytes of its capacity.
C14_NoActiveVertexFails ==
    [][(op' \in Setters \ {"Position"} /\ started = 0) =>
           /\ err' # Nil
           /\ vb'.verts = vb.verts
           /\ vb'.spare = vb.spare]_vars

\* C15: a call that fails (a setter that ends with an error or a panic, a
\* CopyVertices to a destination of another format) leaves the buffer, the
\* current record, the written-channel set, the last-written offsets, the
\* indices and nextBase as they were before the call.
C15_FailureKeepsState ==
    [][((op' \in Setters /\ err' # Nil) \/ (op' = "CopyVertices" /\ arg'[1] # vb.vf)) =>
           /\ vb'.verts = vb.verts
           /\ vb'.cur = vb.cur
           /\ vb'.curvf = vb.curvf
           /\ vb'.lastdata = vb.lastdata
           /\ ib' = ib]_vars

\* C16: CopyVertices to a destination of another format ends with the
\* bad-vertex-format error and hands over nothing; to a destination of the
\* builder's format it hands over the buffer with the carry-forward applied
\* (unless the mapping of the destination fails), one record per vertex.
C16_FormatMismatch ==
    [][op' = "CopyVertices" =>
           /\ arg'[1] # vb.vf =>
                  /\ err' = ErrBadVertexFormat
                  /\ dest'.data = <<>>
                  /\ dest'.count = 0
           /\ (arg'[1] = vb.vf /\ err' # errMapBufferFailed) =>
                  /\ \E o \in FillOrders(vb) : vb' = fillVertex(vb, o).vb
                  /\ dest'.data = vb'.verts
                  /\ err' = Nil => dest'.count = started]_vars

\* C16 witness: a builder of two Position|Color vertices refused by a
\* destination of format Position|Normal, which got nothing.
C16_Witness ==
    /\ op = "CopyVertices"
    /\ vb.vf = VertexPosition + VertexColor
    /\ arg = <<VertexPosition + VertexNormal>>
    /\ started = 2
    /\ err = ErrBadVertexFormat
    /\ dest.data = <<>>

\* C17: a copy-out into a slice whose length differs from the source count
\* returns an error: CopyIndices when len(buf) is not IndexCount(),
\* CopyVertices when len(buf) is not VertexCount() * Stride.
C17_LengthMismatch ==
    /\ (op = "GeometryBuffer.CopyIndices" /\ arg[1] # GeometryBufferIndexCount(vb, ib)) =>
           err # Nil
    /\ (op = "GeometryBuffer.CopyVertices" /\ arg[1] # VertexCount(vb).val * Stride(vb.vf)) =>
           err # Nil

\* C18: for the empty format the stride is 0 and nothing fails: Position,
\* VertexCount, and CopyVertices to a destination of the empty format all
\* complete without error or panic, and the buffer holds no bytes.
C18_EmptyFormat ==
    vb.vf = 0 =>
        /\ Stride(vb.vf) = 0
        /\ vb.verts = <<>>
        /\ VertexCount(vb).err = Nil
        /\ op = "Position" => err = Nil
        /\ (op = "CopyVertices" /\ arg = <<0>>) => (err = Nil /\ dest.data = <<>>)

\* C19: SetIndices leaves exactly the supplied indices stored, not rebased
\* and with nothing kept of what was stored before, and nextBase zero; and a
\* later write of the caller to its slice leaves the stored indices as they
\* are.
C19_SetIndicesReplaces ==
    [][/\ op' = "SetIndices" => (ib'.idxs = arg' /\ ib'.nextidx = 0)
       /\ op' = "caller write" => (ib'.idxs = ib.idxs /\ ib'.nextidx = ib.nextidx)]_vars

\* C19 witness: the caller has changed the slice it passed, and the stored
\* indices are still those of the call.
C19_Witness ==
    /\ op = "caller write"
    /\ arg = <<1, 1, 2, 2, 0, 3>>
    /\ ib.idxs = <<0, 1, 2, 2, 0, 3>>
    /\ ib.nextidx = 0

\* C20: in every state, also after SetIndices, Indices stores its arguments
\* relative to the largest index in the buffer: local index k is stored as
\* k plus one more than the largest index stored before the call (k itself
\* while nothing is stored), in 16-bit arithmetic.
C20_RelativeToMax ==
    [][op' = "Indices" =>
           LET base == IF ib.idxs = <<>> THEN 0 ELSE U16(MaxOf(ib.idxs) + 1)
           IN  ib'.idxs = ib.idxs \o [k \in 1..Len(arg') |-> U16(arg'[k] + base)]]_vars

\* C21: Builder.Clear resets both sub-builders: after it VertexCount() is 0,
\* no index is stored and nextBase is 0, and an Indices call that follows it
\* stores its arguments as they are.
C21_BuilderClear ==
    [][/\ op' = "Clear" =>
            /\ VertexCount(vb') = [err |-> Nil, val |-> 0]
            /\ IndexCount(ib') = 0
            /\ ib'.nextidx = 0
       /\ (op = "Clear" /\ op' = "Indices") => ib'.idxs = arg']_vars

\* C21 witness: a batch stored un-offset right after a Clear of a builder
\* that held vertices and indices.
C21_Witness ==
    /\ op = "Indices"
    /\ supplied
    /\ started = 0
    /\ Stale \in {vb.spare[i] : i \in 1..Len(vb.spare)}
    /\ ib.idxs = <<0, 1, 2>>
    /\ ib.nextidx = 3

\* C22: the quad end to end.  On a Position|Color|Texcoord builder, four
\* vertices of which the first has Position, Color and Texcoord set and the
\* others Position and Texcoord only, with Indices(0,1,2,2,0,3) and a
\* finalize, give VertexCount() = 4, IndexCount() = 6 and in the vertices 2
\* to 4 the Color bytes of vertex 1.
C22_Quad ==
    (/\ vb.vf = VertexPosition + VertexColor + VertexTexcoord
     /\ explicit = <<{VertexPosition, VertexColor, VertexTexcoord},
                     {VertexPosition, VertexTexcoord},
                     {VertexPosition, VertexTexcoord},
                     {VertexPosition, VertexTexcoord}>>
     /\ supplied
     /\ op = "CopyVertices") =>
        /\ VertexCount(vb) = [err |-> Nil, val |-> 4]
        /\ IndexCount(ib) = 6
        /\ \A k \in 2..4 : RecordBytes(vb, k, VertexColor) = RecordBytes(vb, 1, VertexColor)

\* C22 witness: the quad built and handed over, the fourth vertex holding
\* the colour given to the first.
C22_Witness ==
    /\ vb.vf = VertexPosition + VertexColor + VertexTexcoord
    /\ explicit = <<{VertexPosition, VertexColor, VertexTexcoord},
                    {VertexPosition, VertexTexcoord},
                    {VertexPosition, VertexTexcoord},
                    {VertexPosition, VertexTexcoord}>>
    /\ ib.idxs = <<0, 1, 2, 2, 0, 3>>
    /\ op = "CopyVertices"
    /\ err = Nil
    /\ dest.count = 4
    /\ RecordBytes(vb, 4, VertexColor) = <<128, 0, 255, 255>>

\* the byte width of an element of a GL type
TypeWidth(t) == IF t = "UNSIGNED_BYTE" THEN 1 ELSE 4

\* C23: the attribute tables agree.  For every channel the byte size is the
\* element count times the element width; a colour channel is 4 normalized
\* unsigned 8-bit elements (4 bytes), every other channel non-normalized
\* 32-bit float: 2 elements (8 bytes) for a texcoord slot, 4 (16 bytes) for a
\* user-data slot, 3 (12 bytes) otherwise.
C23_AttribTables ==
    op = "attrib" =>
        LET c == ret.channel
        IN  /\ ret.bytes = ret.elems * TypeWidth(ret.type)
            /\ ret.bytes = ByteSize(c)
            /\ ret.normalized <=> c \in ColorChannels
            /\ ret.type = IF c \in ColorChannels THEN "UNSIGNED_BYTE" ELSE "FLOAT"
            /\ ret.elems = IF c \in ColorChannels \cup UserDataChannels THEN 4
                           ELSE IF c \in TexcoordChannels THEN 2 ELSE 3

\* C23 witness: the tables queried for the last user-data slot.
C23_Witness ==
    /\ op = "attrib"
    /\ ret.channel = VertexUserData3
    /\ ret.bytes = 16
    /\ ret.elems = 4
    /\ ret.type = "FLOAT"
    /\ ~ret.normalized

\* C24: a finalize pass gives the same result whatever the order in which
\* `range` visits the keys of lastdata: the builder a Position or a
\* CopyVertices leaves (buffer bytes, written-channel set, last-written
\* offsets) and the way the call ends are those of every iteration order.
C24_OrderIndependent ==
    [][/\ op' = "CopyVertices" =>
            \A o \in Perms(DOMAIN vb.lastdata) :
                /\ fillVertex(vb, o).vb = vb'
                /\ CopyVertices(vb, [NoDest EXCEPT !.format = arg'[1]], o, 0).vb = vb'
       /\ op' = "Position" =>
            \A o \in Perms(DOMAIN vb.lastdata) :
                Position(vb, arg', o) = [vb |-> vb', err |-> err']]_vars

\* C24 witness: a finalize pass that had two channels to carry forward, and
\* so two orders to take them in.
C24_Witness ==
    /\ vb.vf = VertexColor + VertexNormal
    /\ op = "CopyVertices"
    /\ started = 2
    /\ explicit[1] = {VertexColor, VertexNormal}
    /\ explicit[2] = {}
    /\ RecordBytes(vb, 2, VertexColor) = <<128, 0, 255, 255>>
    /\ RecordBytes(vb, 2, VertexNormal) = FloatBytes(<<F0, F0, F1>>)

\* C25: Position carries forward into the record before it, if there is one
\* (it gets, for each channel no setter wrote on it, the bytes of the record
\* before it, or keeps its zeros if it is the first), then appends exactly
\* one record of stride bytes, zero but for the position it then writes,
\* makes it current and leaves no channel marked but Position; and whenever
\* the buffer holds a record, cur is the start of the last one.
C25_StartVertex ==
    [][/\ op' = "Position" =>
            /\ Len(vb'.verts) = Len(vb.verts) + vb.stride
            /\ vb'.cur = Len(vb.verts)
            /\ vb'.curvf = VertexPosition
            /\ \A c \in ChannelsOf(vb.vf) :
                   RecordBytes(vb', started', c) =
                       IF c = VertexPosition THEN FloatBytes(arg') ELSE Zeros(ByteSize(c))
            /\ started >= 1 =>
                   \A c \in ChannelsOf(vb.vf) :
                       RecordBytes(vb', started, c) =
                           IF c \in explicit[started] THEN RecordBytes(vb, started, c)
                           ELSE IF started >= 2 THEN RecordBytes(vb', started - 1, c)
                           ELSE Zeros(ByteSize(c))
            /\ \A k \in 1..(started - 1), c \in ChannelsOf(vb.vf) :
                   RecordBytes(vb', k, c) = RecordBytes(vb, k, c)
       /\ Len(vb'.verts) > 0 => vb'.cur = Len(vb'.verts) - vb'.stride]_vars

\* C25 witness: the third vertex started on a builder in use again after a
\* Clear; the second record got the colour of the first, the third is zero
\* but for its position, and cur is its start.
C25_Witness ==
    /\ op = "Position"
    /\ vb.vf = VertexPosition + VertexColor
    /\ started = 3
    /\ Stale \in {vb.spare[i] : i \in 1..Len(vb.spare)}
    /\ explicit[2] = {VertexPosition}
    /\ RecordBytes(vb, 2, VertexColor) = <<128, 0, 255, 255>>
    /\ RecordBytes(vb, 3, VertexColor) = <<0, 0, 0, 0>>
    /\ vb.cur = 32
    /\ Len(vb.verts) = 48

\* the offset table derived from a builder's own format
OwnTable(b) == [c \in ChannelsOf(b.vf) |-> ChannelOffset(b.vf, c)]

\* C26: no call changes a builder's format or stride; an offset table, once
\* computed, is the table derived from that builder's own format and stays
\* as it is; and of two builders of different formats in use together, in
\* any order, each answers an offset query from its own format.
C26_FormatFixed ==
    [][/\ \A who \in 1..2 :
            LET b  == IF who = 1 THEN vb ELSE twin.vb
                nb == IF who = 1 THEN vb' ELSE twin'.vb
            IN  /\ nb.vf = b.vf
                /\ nb.stride = b.stride
                /\ nb.offsets # EmptyMap => nb.offsets = OwnTable(nb)
                /\ b.offsets # EmptyMap => nb.offsets = b.offsets
       /\ (op' = "offset" /\ err' = Nil) =>
            arg'[3] = ChannelOffset(Sel(arg'[1]).vf, arg'[2])]_vars

\* C26 witness: both tables computed, the second builder asked last; the
\* colour lies at 12 in the first builder's records and at 0 in the second's.
C26_Witness ==
    /\ op = "offset"
    /\ arg = <<2, VertexNormal, 4>>
    /\ vb.vf = VertexPosition + VertexColor
    /\ twin.vb.vf = VertexColor + VertexNormal
    /\ vb.offsets # EmptyMap
    /\ vb.offsets[VertexColor] = 12
    /\ twin.vb.offsets[VertexColor] = 0
    /\ Len(vb.verts) = 16

\* C27: repetitions of the benchmark's body on one builder without Clear.
\* After the q-th repetition nextBase is the number of vertices, 4q, and the
\* q-th batch is stored as 4(q-1) + <<0,1,2,2,0,3>>, for every q.  (q is the
\* repetitions made before the look began and those since, of which idxs
\* holds the batches.)
C27_NoWrap ==
    LET n == IndexCount(ib) \div 6
        q == started \div 4 + n - 1
    IN  /\ ib.nextidx = 4 * q
        /\ SubSeq(ib.idxs, 6 * n - 5, 6 * n) = [k \in 1..6 |-> 4 * (q - 1) + BenchPattern[k]]

\* every entry of lastdata is for a channel of the format and points at that
\* channel's slot in one of the records the buffer holds
LastdataInside(b) ==
    \A c \in DOMAIN b.lastdata :
        /\ c \in ChannelsOf(b.vf)
        /\ \E k \in 0..(VertexCount(b).val - 1) :
               b.lastdata[c] = k * b.stride + ChannelOffset(b.vf, c)

\* C28: while no call fails, every entry lastdata[c] is for a channel c of
\* the format and equals k*stride + offset(c) for a record k below
\* VertexCount().  It holds of a new builder; stated as what each call that
\* returns normally keeps.
C28_LastdataInBuffer ==
    [][(LastdataInside(vb) /\ err' = Nil) => LastdataInside(vb')]_vars

\* C29: a per-channel setter (Color, Colorf, Normal, Texcoord) that returns
\* normally changes, for its channel c, the ByteSize(c) bytes at
\* cur + offset(c), the bit of c in the written-channel set and lastdata[c],
\* and nothing else: the length of the buffer, VertexCount(), every other
\* byte of the buffer, the other entries of lastdata, cur and the index
\* state stay as they are.
C29_SetterFrame ==
    [][(op' \in Setters \ {"Position"} /\ err' = Nil) =>
           LET c  == SetterChannel(op')
               lo == vb.cur + ChannelOffset(vb.vf, c)
           IN  /\ Len(vb'.verts) = Len(vb.verts)
               /\ VertexCount(vb') = VertexCount(vb)
               /\ \A i \in 1..Len(vb.verts) :
                      (i <= lo \/ i > lo + ByteSize(c)) => vb'.verts[i] = vb.verts[i]
               /\ started > 0 =>
                      /\ SubSeq(vb'.verts, lo + 1, lo + ByteSize(c)) = SetterBytes(op', arg')
                      /\ vb'.spare = vb.spare
               /\ vb'.curvf = OrBit(vb.curvf, c)
               /\ DOMAIN vb'.lastdata = DOMAIN vb.lastdata \cup {c}
               /\ vb'.lastdata[c] = lo
               /\ \A d \in DOMAIN vb.lastdata \ {c} : vb'.lastdata[d] = vb.lastdata[d]
               /\ vb'.cur = vb.cur
               /\ ib' = ib]_vars

\* C29 witness: the colour set on the second of two records; the first
\* record and the position of the second are as before.
C29_Witness ==
    /\ op = "Color"
    /\ err = Nil
    /\ arg = <<128, 0, 255, 255>>
    /\ vb.vf = VertexPosition + VertexColor
    /\ started = 2
    /\ RecordBytes(vb, 1, VertexColor) = <<0, 0, 0, 0>>
    /\ RecordBytes(vb, 2, VertexColor) = <<128, 0, 255, 255>>
    /\ RecordBytes(vb, 2, VertexPosition) = FloatBytes(<<F1, F0, F0>>)
    /\ vb.lastdata = (VertexPosition :> 16) @@ (VertexColor :> 28)

\* C30: once a later vertex has been started, the bytes of an earlier record
\* never change again: no Position, setter or finalize call (Clear apart)
\* changes a byte of a record that lies before the current one, so each such
\* record stays as it was right after the Position call that started its
\* successor.
C30_EarlierRecordsFixed ==
    [][op' \in Setters \cup {"CopyVertices"} =>
           /\ Len(vb'.verts) >= Len(vb.verts)
           /\ \A k \in 1..(started - 1) :
                  SubSeq(vb'.verts, (k - 1) * vb.stride + 1, k * vb.stride)
                      = SubSeq(vb.verts, (k - 1) * vb.stride + 1, k * vb.stride)]_vars

\* C30 witness: a colour set on the second record, different from the one the
\* first record keeps, and then the second record finalized.
C30_Witness ==
    /\ op = "CopyVertices"
    /\ err = Nil
    /\ vb.vf = VertexPosition + VertexColor
    /\ started = 2
    /\ explicit[2] = {VertexPosition, VertexColor}
    /\ RecordBytes(vb, 1, VertexColor) = <<128, 0, 255, 255>>
    /\ RecordBytes(vb, 2, VertexColor) = <<0, 0, 0, 0>>
    /\ RecordBytes(vb, 1, VertexPosition) = FloatBytes(<<F1, F0, F0>>)

\* C31: no data written before a Clear is observable afterwards.  twin is a
\* builder of the same format with the empty history, made anew at every
\* Clear and given the same calls since; whatever the builder's own history
\* before the Clear, and although the old bytes remain in the capacity of its
\* array, CopyVertices delivers the same bytes from both, and their buffers
\* are equal.
C31_NoResidue ==
    /\ vb.verts = twin.vb.verts
    /\ op = "CopyVertices" =>
          /\ dest.data = twin.dest.data
          /\ dest.count = twin.dest.count

\* C31 witness: one vertex delivered after a Clear, while bytes of the two
\* vertices built before the Clear remain beyond the length of the buffer.
C31_Witness ==
    /\ op = "CopyVertices"
    /\ err = Nil
    /\ vb.vf = VertexPosition + VertexColor
    /\ dest.count = 1
    /\ dest.data = FloatBytes(<<F1, F0, F0>>) \o <<0, 0, 0, 0>>
    /\ Len(vb.spare) = 16
    /\ \A k \in 1..16 : vb.spare[k] = Stale
    /\ twin.vb.spare = <<>>

\* C32: Indices rewrites the elements of the slice it is given, in place,
\* with the rebased values, and appends those; a second call with the same
\* slice is given the values the first one left and rebases them again; and
\* Indices without arguments leaves the stored sequence and nextBase as they
\* are (and the caller's slice too).
C32_RewritesSlice ==
    [][op' = "Indices" =>
           /\ ret' = IF arg' = <<>> THEN ret
                     ELSE [k \in 1..Len(arg') |-> U16(arg'[k] + ib.nextidx)]
           /\ arg' # <<>> => ib'.idxs = ib.idxs \o ret'
           /\ (op = "Indices" /\ arg # <<>> /\ arg' # <<>>) =>
                  /\ arg' = ret
                  /\ SubSeq(ib'.idxs, Len(ib.idxs) + 1, Len(ib'.idxs))
                         = [k \in 1..Len(ret) |-> U16(ret[k] + ib.nextidx)]
           /\ arg' = <<>> => (ib'.idxs = ib.idxs /\ ib'.nextidx = ib.nextidx)]_vars

\* C32 witness: the slice 0,2 passed twice after another triangle; the first
\* call left 3,5 in it, the second 9,11, and both are stored.
C32_Witness ==
    /\ op = "Indices"
    /\ arg = <<3, 5>>
    /\ ret = <<9, 11>>
    /\ ib.idxs = <<0, 1, 2, 3, 5, 9, 11>>
    /\ ib.nextidx = 12

\* C33: for the GeometryBuffer that uploads to a device IndexBuffer, a
\* successful CopyIndices leaves dest.Count() equal to what IndexCount()
\* returned right before the call, in every reachable state, the one where
\* no indices were ever supplied included.
C33_CountDelivered ==
    (op = "device CopyIndices" /\ err = Nil) => dest.count = ret.count

\* C34: for every format, the byte offset and the stride LayoutGeometry
\* passes to the vertex-attribute pointer setup for a channel are the
\* builder's offset(channel) and stride for the same format; the calls are
\* made in ascending order of the channels' bits.
C34_LayoutMatchesBuilder ==
    (op = "LayoutGeometry" /\ err = Nil /\ arg[1] = vb.vf) =>
        /\ \A k \in 1..Len(ret) :
               /\ HasBit(vb.vf, ret[k].channel)
               /\ ret[k].offset = offset(vb, ret[k].channel).val
               /\ ret[k].stride = vb.stride
               /\ ret[k].stride = Stride(vb.vf)
        /\ \A j, k \in 1..Len(ret) : j < k => ret[j].channel < ret[k].channel

\* C34 witness: a layout of three channels, the second of which the program
\* has no location for: the third is bound after both.
C34_Witness ==
    /\ op = "LayoutGeometry"
    /\ err = Nil
    /\ vb.vf = VertexPosition + VertexColor1 + VertexUserData
    /\ arg[1] = vb.vf
    /\ Len(ret) = 2
    /\ ret[1].channel = VertexPosition
    /\ ret[1].offset = 0
    /\ ret[2].channel = VertexUserData
    /\ ret[2].offset = 16
    /\ ret[2].stride = 32

\* C35: VertexBuffer.SetVertices and IndexBuffer.SetIndices always end by
\* returning: they make at most 5 map/copy/unmap attempts, stop at the first
\* attempt whose unmap succeeds, then set count from the length of the
\* source and return nil; when all 5 unmaps fail they return the
\* map-buffer-failed error and leave count as it was.
C35_BoundedRetry ==
    op \in {"SetVertices", "SetIndices"} =>
        LET d == IF op = "SetVertices" THEN dest ELSE twin.dest
        IN  /\ ret.attempts <= maxretries
            /\ err \in {Nil, errMapBufferFailed, ErrBadVertexFormat}
            /\ (ret.attempts >= 1 /\ arg[2] < maxretries) =>
                   /\ ret.attempts = arg[2] + 1
                   /\ err = Nil
                   /\ d.count = IF op = "SetVertices" THEN arg[1] \div Stride(arg[3])
                                ELSE arg[1]
            /\ (ret.attempts >= 1 /\ arg[2] >= maxretries) =>
                   /\ ret.attempts = maxretries
                   /\ err = errMapBufferFailed
                   /\ d.count = ret.before

\* how often handle h occurs in the sequence q
Times(h, q) == Cardinality({k \in 1..Len(q) : q[k] = h})

\* C36: under any interleaving of addBuffer and release calls, every handle
\* added to the trash bin is passed to gl.DeleteBuffers by exactly one later
\* release: it is never dropped without deletion (it is in the bin or has
\* been deleted), never deleted twice, in the bin and deleted together only
\* inside the release that is deleting it, and a release leaves the bin
\* empty of all it found.
C36_DeletedOnce ==
    /\ \A h \in handles.added :
           /\ Times(h, handles.deleted) <= 1
           /\ Times(h, trashbin.buffers) <= 1
           /\ Times(h, trashbin.buffers) + Times(h, handles.deleted) >= 1
           /\ trashbin.Mutex = 0 =>
                  Times(h, trashbin.buffers) + Times(h, handles.deleted) = 1
    /\ \A h \in 1..MaxHandles :
           h \notin handles.added =>
               (Times(h, trashbin.buffers) = 0 /\ Times(h, handles.deleted) = 0)
    /\ \A t \in Releasers :
           At(t, "release", "Unlock") => trashbin.buffers = <<>>

\* C36 witness: two releases have deleted the three handles between them,
\* and a finalizer and a release are waiting for the mutex that another
\* release holds.
C36_Witness ==
    /\ handles.added = {1, 2, 3}
    /\ Len(handles.deleted) = 3
    /\ handles.deleted[1] # handles.deleted[2]
    /\ trashbin.buffers = <<>>
    /\ trashbin.Mutex = 3
    /\ At(3, "release", "Unlock")
    /\ At(4, "release", "Lock")

\* C37: after any sequence of AddChild, SetParent and Remove calls the
\* parent/child relation is consistent: c.Parent() == p exactly when c occurs
\* exactly once among p's children, and after c.Remove() c has no parent and
\* is among no node's children.
C37_ConsistentForest ==
    /\ \A c \in DOMAIN nodes, p \in DOMAIN nodes :
           nodes[c].parent = p <=> Times(c, nodes[p].children) = 1
    /\ (op = "Remove" /\ err = Nil) =>
           /\ nodes[arg[1]].parent = 0
           /\ \A p \in DOMAIN nodes : Times(arg[1], nodes[p].children) = 0

====
